---- MODULE Spec2Model ----
(***************************************************************************)
(* Model of the log-analyzer parsing core:                                 *)
(*   - FormatDetector.detect and its five scorers                          *)
(*     (src/parsers/format-detector.js)                                    *)
(*   - LogParserManager.parseFile / streamParse / parseRendererLine        *)
(*     (src/parsers/log-parser-manager.js)                                 *)
(*   - the parseLine contract of the five format parsers                   *)
(*                                                                         *)
(* A line of text is abstracted to its KIND: a class of lines on which     *)
(* every regular expression used by the detector, the manager and the      *)
(* parsers gives the same answer.  Each kind stands for the example text   *)
(* listed with it; the Matches... operators below are the regular          *)
(* expressions of the source evaluated on those examples.                  *)
(*                                                                         *)
(*  "blank"   ""                                                           *)
(*  "plain"   random unstructured line                                     *)
(*  "rhdr"    [2025-06-26 19:26:27] [ERROR] [auth] ERROR: | name=Error,    *)
(*            errMsg=Invalid credentials                                   *)
(*  "rfield"  request failed errMsg=timeout                                *)
(*  "frame"       at refresh (app.js:10:5)                                 *)
(*  "atbare"      at <anonymous>                                           *)
(*  "httpm"   [2025-06-26 19:26:27] [info] GET /x | action=HTTP_REQUESTED, *)
(*            seq=1, url=https://a/b                                       *)
(*  "syncj"   {"Level":"ERROR","Timestamp":"2025-06-26T19:26:27Z",         *)
(*            "Caller":"a/b.go:48","Message":"m"}                          *)
(*  "syncgo"  the same object with "DomainID":"d1"                         *)
(*  "perf"    [2025-06-26 19:26:27] [info] Performance Trace |             *)
(*            traces=[{"pid":1,"name":"a","cpuUsage":1,"memoryUsage":2}],  *)
(*            system={"cpu":{"load":1}}                                    *)
(*  "ptraces" traces=[{"pid":1,"name":"a","cpuUsage":1,"memoryUsage":2}],  *)
(*            system={"cpu":{"load":1}}                                    *)
(*  "mdate"   周三 2025/06 11:55:50.67 mount started                       *)
(*  "mpath"   "C:\dasfs\dasfs.exe"                                         *)
(*  "mkey"    worker name: w1                                              *)
(***************************************************************************)
EXTENDS Integers, Sequences, FiniteSets, TLC

VARIABLES
    file,            \* the lines of the file, as kinds
    maxLines,        \* options.maxLines
    throwLine,       \* the line on whose record an exception is raised (0: none)
    throwIn,         \* where it is raised: "parseLine" or "onLog"
    pc,              \* position of parseFile
    detection,       \* result of detectFormatFromFile
    parserCreated,   \* format of the parser instance, "none" before createParser
    lineNumber,      \* streamParse: let lineNumber
    result,          \* streamParse: result {totalLines, successfulLogs, failedLines, logs}
    context,         \* streamParse: context {stackLines, previousLog}
    onLogCalls,      \* records handed to options.onLog, in call order
    onErrorCalls,    \* calls of options.onError
    onCompleteCalls, \* number of calls of options.onComplete
    rejection,       \* message of the error parseFile rejects with, "" if none
    sample,          \* FormatDetector.detect: sampleLines (detector specification)
    rawLine,         \* the line handed to a parser's parseLine or to normalizeLine
    clock,           \* the wall clock, what new Date() reads
    producer,        \* the parser, or the normalizer, the line is handed to
    records,         \* what the producer returned, one entry per call
    content,         \* LogAnalyzer: the lines of the analysed content
    patterns,        \* LogAnalyzer: this.kb.getAllPatterns()
    threshold,       \* clusterSimilarLines: threshold
    analysis,        \* what analyzeLog / clusterSimilarLines returned
    extractedFiles,  \* upload handler: the analyses of the files merged so far
    allDetectedIssues,   \* upload handler: const allDetectedIssues
    combinedLevelCounts, \* upload handler: let combinedLevelCounts
    combinedClusters,    \* upload handler: let combinedClusters
    other                \* the closure state of a second, concurrent parseFile call

vars == <<file, maxLines, throwLine, throwIn, pc, detection, parserCreated,
          lineNumber, result, context, onLogCalls, onErrorCalls,
          onCompleteCalls, rejection, sample, rawLine, clock, producer,
          records, content, patterns, threshold, analysis, extractedFiles,
          allDetectedIssues, combinedLevelCounts, combinedClusters, other>>

(* the variables of each component, and the component at rest *)
ManagerVars == <<file, maxLines, throwLine, throwIn, detection, parserCreated,
                 lineNumber, result, context, onLogCalls, onErrorCalls,
                 onCompleteCalls, rejection, sample>>
RecordVars == <<rawLine, clock, producer, records>>
AnalyzerVars == <<content, patterns, threshold, analysis>>
MergeVars == <<extractedFiles, allDetectedIssues, combinedLevelCounts,
               combinedClusters>>
PairVars == <<other>>

RecordIdle ==
    /\ rawLine = <<>>
    /\ clock = 0
    /\ producer = "none"
    /\ records = <<>>

AnalyzerIdle ==
    /\ content = <<>>
    /\ patterns = <<>>
    /\ threshold = 0
    /\ analysis = <<>>

MergeIdle ==
    /\ extractedFiles = <<>>
    /\ allDetectedIssues = <<>>
    /\ combinedLevelCounts = <<>>
    /\ combinedClusters = <<>>

PairIdle == other = <<>>

----------------------------------------------------------------------------
(* Bounds of the model *)

MaxLen == 3
MaxSample == 3

(* Program constants *)

RendererWindow == 20
HttpWindow == 20
SyncAppWindow == 20
PerformanceWindow == 20
MountAppWindow == 30
SaturationMatches == 5
SampleSize == 100
Infinity == -1

Min(a, b) == IF a < b THEN a ELSE b

----------------------------------------------------------------------------
(* FormatDetector.FORMATS *)

RENDERER == "renderer"
HTTP == "http"
SYNC_APP == "sync_app"
PERFORMANCE == "performance"
MOUNT_APP == "mount_app"
UNKNOWN == "unknown"

----------------------------------------------------------------------------
(* The regular expressions of the detector, on line kinds *)

IsBlank(k) == k = "blank"

MatchesRendererHeader(k) == k = "rhdr"
MatchesStackFrame(k) == k = "frame"
MatchesRendererFields(k) == k \in {"rhdr", "rfield"}

MatchesHttpMethod(k) == k = "httpm"
MatchesHttpAction(k) == k = "httpm"
MatchesHttpSeqUrl(k) == k = "httpm"

IsSyncAppJson(k) == k \in {"syncj", "syncgo"}
HasGoFieldNames(k) == k = "syncgo"

MatchesPerformanceMarker(k) == k = "perf"
MatchesTracesSystem(k) == k \in {"perf", "ptraces"}
MatchesProcessInfo(k) == k \in {"perf", "ptraces"}

MatchesChineseDate(k) == k = "mdate"
MatchesWindowsPath(k) == k = "mpath"
MatchesMountKeywords(k) == k \in {"mpath", "mkey"}

(* lines.slice(0, n) *)
Slice(lines, n) == SubSeq(lines, 1, Min(Len(lines), n))

(* Math.min(matches / 5, 1.0), in fifths: Score(m) / 5 is the JS number *)
ScoreUncapped(matches) == matches
Score(matches) == Min(matches, SaturationMatches)

(* The tail of every scorer: the count reason and the score *)
Scored(scan) ==
    [score |-> Score(scan.matches),
     matches |-> scan.matches,
     reasons |-> IF scan.matches > 0
                 THEN Append(scan.reasons,
                             ToString(scan.matches) \o " matching patterns found")
                 ELSE scan.reasons]

RendererHit(k) ==
    IF IsBlank(k) THEN <<0, <<>>>>
    ELSE IF MatchesRendererHeader(k) THEN <<1, <<>>>>
    ELSE IF MatchesStackFrame(k) THEN <<1, <<"Found stack trace line">>>>
    ELSE IF MatchesRendererFields(k) THEN <<1, <<"Found Renderer error fields">>>>
    ELSE <<0, <<>>>>

HttpHit(k) ==
    IF IsBlank(k) THEN <<0, <<>>>>
    ELSE IF MatchesHttpMethod(k) THEN <<1, <<"HTTP method found">>>>
    ELSE IF MatchesHttpAction(k) THEN <<1, <<"Found HTTP action field">>>>
    ELSE IF MatchesHttpSeqUrl(k) THEN <<1, <<"Found HTTP seq and url">>>>
    ELSE <<0, <<>>>>

SyncAppHit(k) ==
    IF IsBlank(k) THEN <<0, <<>>>>
    ELSE IF ~IsSyncAppJson(k) THEN <<0, <<>>>>
    ELSE IF HasGoFieldNames(k)
         THEN <<2, <<"Found SyncApp JSON structure", "Found Go-style field names">>>>
         ELSE <<1, <<"Found SyncApp JSON structure">>>>

PerformanceHit(k) ==
    IF IsBlank(k) THEN <<0, <<>>>>
    ELSE IF MatchesPerformanceMarker(k) THEN <<2, <<"Found Performance Trace marker">>>>
    ELSE IF MatchesTracesSystem(k) THEN <<1, <<"Found traces and system fields">>>>
    ELSE IF MatchesProcessInfo(k) THEN <<1, <<"Found process information">>>>
    ELSE <<0, <<>>>>

MountAppHit(k) ==
    IF IsBlank(k) THEN <<0, <<>>>>
    ELSE IF MatchesChineseDate(k) THEN <<2, <<"Found Chinese date format">>>>
    ELSE IF MatchesWindowsPath(k) THEN <<1, <<"Found Windows path">>>>
    ELSE IF MatchesMountKeywords(k) THEN <<1, <<"Found MountApp keywords">>>>
    ELSE <<0, <<>>>>

NoScan == [matches |-> 0, reasons |-> <<>>]

(* the <<increment, reasons>> of one line in the loop of a format's scorer *)
HitOf(format, k) ==
    CASE format = RENDERER -> RendererHit(k)
      [] format = HTTP -> HttpHit(k)
      [] format = SYNC_APP -> SyncAppHit(k)
      [] format = PERFORMANCE -> PerformanceHit(k)
      [] format = MOUNT_APP -> MountAppHit(k)

(* One scorer's loop over its window of lines *)
RECURSIVE ScanLines(_, _, _)
ScanLines(lines, format, acc) ==
    IF lines = <<>> THEN acc
    ELSE LET h == HitOf(format, Head(lines))
         IN ScanLines(Tail(lines), format,
                      [matches |-> acc.matches + h[1],
                       reasons |-> acc.reasons \o h[2]])

detectRenderer(lines) == Scored(ScanLines(Slice(lines, RendererWindow), RENDERER, NoScan))
detectHttp(lines) == Scored(ScanLines(Slice(lines, HttpWindow), HTTP, NoScan))
detectSyncApp(lines) == Scored(ScanLines(Slice(lines, SyncAppWindow), SYNC_APP, NoScan))
detectPerformance(lines) ==
    Scored(ScanLines(Slice(lines, PerformanceWindow), PERFORMANCE, NoScan))
detectMountApp(lines) == Scored(ScanLines(Slice(lines, MountAppWindow), MOUNT_APP, NoScan))

(* The scorers in the order detect evaluates them *)
ScorerOrder == <<RENDERER, HTTP, SYNC_APP, PERFORMANCE, MOUNT_APP>>

ScorerResult(format, lines) ==
    CASE format = RENDERER -> detectRenderer(lines)
      [] format = HTTP -> detectHttp(lines)
      [] format = SYNC_APP -> detectSyncApp(lines)
      [] format = PERFORMANCE -> detectPerformance(lines)
      [] format = MOUNT_APP -> detectMountApp(lines)

(* results.push({format, ...score}) for every scorer with score > 0 *)
RECURSIVE CollectResults(_, _)
CollectResults(formats, lines) ==
    IF formats = <<>> THEN <<>>
    ELSE LET r == ScorerResult(Head(formats), lines)
             rest == CollectResults(Tail(formats), lines)
         IN IF r.score > 0
            THEN <<[format |-> Head(formats), score |-> r.score,
                    matches |-> r.matches, reasons |-> r.reasons]>> \o rest
            ELSE rest

(* results.sort((a, b) => b.score - a.score): a stable sort, descending by   *)
(* score.  InsertSorted puts x after every element that does not compare     *)
(* greater than it, so equal scores keep their order.                        *)
RECURSIVE InsertSorted(_, _)
InsertSorted(x, sorted) ==
    IF sorted = <<>> THEN <<x>>
    ELSE IF Head(sorted).score >= x.score
         THEN <<Head(sorted)>> \o InsertSorted(x, Tail(sorted))
         ELSE <<x>> \o sorted

RECURSIVE InsertSortedBeforeEqual(_, _)
InsertSortedBeforeEqual(x, sorted) ==
    IF sorted = <<>> THEN <<x>>
    ELSE IF Head(sorted).score > x.score
         THEN <<Head(sorted)>> \o InsertSortedBeforeEqual(x, Tail(sorted))
         ELSE <<x>> \o sorted

RECURSIVE SortInto(_, _)
SortInto(results, acc) ==
    IF results = <<>> THEN acc
    ELSE SortInto(Tail(results), InsertSorted(Head(results), acc))

RECURSIVE SortIntoBeforeEqual(_, _)
SortIntoBeforeEqual(results, acc) ==
    IF results = <<>> THEN acc
    ELSE SortIntoBeforeEqual(Tail(results), InsertSortedBeforeEqual(Head(results), acc))

SortResultsUnstable(results) == SortIntoBeforeEqual(results, <<>>)
SortResults(results) == SortInto(results, <<>>)

NoMatchReasons == <<"No matching format detected">>

detect(sampleLines) ==
    LET results == SortResults(CollectResults(ScorerOrder, sampleLines))
    IN IF Len(results) > 0
       THEN [format |-> results[1].format,
             confidence |-> results[1].score,
             reasons |-> results[1].reasons]
       ELSE [format |-> UNKNOWN, confidence |-> 0, reasons |-> NoMatchReasons]

----------------------------------------------------------------------------
(* The format parsers, on line kinds *)

LineKinds == {"blank", "plain", "rhdr", "frame", "atbare", "httpm", "syncj"}
DetectKinds == LineKinds \cup {"rfield", "syncgo", "perf", "ptraces", "mdate", "mpath", "mkey"}

(* /^\s+at\s+(async\s+)?/ *)
IsStackLine(k) == k \in {"frame", "atbare"}

(* the three frame patterns of parseStackTrace: at FUNCTION (FILE:LINE[:COLUMN]) *)
ParsesAsFrame(k) == k = "frame"

(* RendererParser.linePattern matches and extractError finds errMsg or stack *)
HasErrorFields(k) == k = "rhdr"

(* PerformanceParser.linePattern: [ts] [level] message | data *)
MatchesPerformanceLine(k) == k \in {"rhdr", "httpm", "perf"}

(* parser.parseStackTrace(context.stackLines.join('\n')): one frame for every *)
(* accumulated line that one of the frame patterns matches                    *)
parseStackTrace(stackLines) == SelectSeq(stackLines, LAMBDA i : ParsesAsFrame(file[i]))

NewLog(i, hasError) == [ln |-> i, error |-> hasError, stack |-> <<>>]

(* parser.parseLine(line): <<>> is null, <<log>> a record.  The record keeps *)
(* the number of the line it was made from (rawLine).                         *)
parseLine(format, i) ==
    LET k == file[i]
    IN CASE format = RENDERER ->
              IF IsStackLine(k) THEN <<>> ELSE <<NewLog(i, HasErrorFields(k))>>
         [] format = HTTP -> <<NewLog(i, FALSE)>>
         [] format = SYNC_APP ->
              IF IsBlank(k) \/ ~IsSyncAppJson(k) THEN <<>> ELSE <<NewLog(i, FALSE)>>
         [] format = PERFORMANCE ->
              IF MatchesPerformanceLine(k) THEN <<NewLog(i, FALSE)>> ELSE <<>>
         [] format = MOUNT_APP ->
              IF IsBlank(k) THEN <<>> ELSE <<NewLog(i, FALSE)>>

(* The two places an exception can be raised while a line's record is made: *)
(* inside parser.parseLine, and inside the caller's onLog callback.          *)
ParseThrows(i) == throwIn = "parseLine" /\ throwLine = i
OnLogThrows(log) == throwIn = "onLog" /\ throwLine = log.ln

----------------------------------------------------------------------------
(* LogParserManager *)

ParserFormats == {RENDERER, HTTP, SYNC_APP, PERFORMANCE, MOUNT_APP}

NoDetection == [format |-> "", confidence |-> 0, reasons |-> <<>>]
NewResult == [totalLines |-> 0, successfulLogs |-> 0, failedLines |-> 0, logs |-> <<>>]
NewContext == [stackLines |-> <<>>, previousLog |-> 0]

(* detectFormatFromFile: FormatDetector.detect on the first sampleSize lines *)
detectFormatFromFile == detect(Slice(file, SampleSize))

(* detection.format === FormatDetector.FORMATS.UNKNOWN *)
IsUnknownNever(d) == FALSE
IsUnknown(d) == d.format = UNKNOWN

(* lineNumber > maxLines *)
ExceedsOffByOne(n, m) == m # Infinity /\ n > m + 1
Exceeds(n, m) == m # Infinity /\ n > m

(* the same three statements with the counter moved behind the callback, so *)
(* that a throwing callback leaves the record uncounted                     *)
EmitCountAfterCallback(res, calls, log) ==
    [result |-> [res EXCEPT !.successfulLogs = IF OnLogThrows(log) THEN @ ELSE @ + 1,
                            !.logs = Append(@, log)],
     calls |-> Append(calls, log),
     threw |-> OnLogThrows(log)]

(* result.successfulLogs++; result.logs.push(log); if (onLog) onLog(log) *)
Emit(res, calls, log) ==
    [result |-> [res EXCEPT !.successfulLogs = @ + 1, !.logs = Append(@, log)],
     calls |-> Append(calls, log),
     threw |-> OnLogThrows(log)]

(* if (line.trim()) context.previousLog = line *)
SaveLine(n, previous) == IF IsBlank(file[n]) THEN previous ELSE n

(* parseRendererLine(line, parser, context, result, onLog) on line n *)
parseRendererLine(n, ctx, res, calls) ==
    IF IsStackLine(file[n])
    THEN [context |-> [ctx EXCEPT !.stackLines = Append(@, n)],
          result |-> res, calls |-> calls, threw |-> FALSE]
    ELSE IF ctx.previousLog # 0
    THEN IF ParseThrows(ctx.previousLog)
         THEN [context |-> ctx, result |-> res, calls |-> calls, threw |-> TRUE]
         ELSE LET parsed == parseLine(RENDERER, ctx.previousLog)
                  saved == [stackLines |-> <<>>,
                            previousLog |-> SaveLine(n, ctx.previousLog)]
              IN IF parsed # <<>>
                 THEN LET log == IF Len(ctx.stackLines) > 0
                                 THEN [parsed[1] EXCEPT
                                         !.error = TRUE,
                                         !.stack = parseStackTrace(ctx.stackLines)]
                                 ELSE parsed[1]
                          e == Emit(res, calls, log)
                      IN IF e.threw
                         THEN [context |-> ctx, result |-> e.result,
                               calls |-> e.calls, threw |-> TRUE]
                         ELSE [context |-> saved, result |-> e.result,
                               calls |-> e.calls, threw |-> FALSE]
                 ELSE [context |-> saved,
                       result |-> [res EXCEPT !.failedLines = @ + 1],
                       calls |-> calls, threw |-> FALSE]
    ELSE [context |-> [ctx EXCEPT !.previousLog = SaveLine(n, @)],
          result |-> res, calls |-> calls, threw |-> FALSE]

(* the else branch of the line handler: parser.parseLine(line, context) *)
parseOtherLine(format, n, ctx, res, calls) ==
    IF ParseThrows(n)
    THEN [context |-> ctx, result |-> res, calls |-> calls, threw |-> TRUE]
    ELSE LET parsed == parseLine(format, n)
         IN IF parsed # <<>>
            THEN LET e == Emit(res, calls, parsed[1])
                 IN [context |-> ctx, result |-> e.result,
                     calls |-> e.calls, threw |-> e.threw]
            ELSE [context |-> ctx,
                  result |-> [res EXCEPT !.failedLines = @ + 1],
                  calls |-> calls, threw |-> FALSE]

(* the try block of the line handler and its catch, on the closure state *)
(* st = [context, result, calls, errors] of one streamParse call         *)
HandleLineIn(n, format, st) ==
    LET out == IF format = RENDERER
               THEN parseRendererLine(n, st.context, st.result, st.calls)
               ELSE parseOtherLine(format, n, st.context, st.result, st.calls)
    IN IF out.threw
       THEN [context |-> out.context,
             result |-> [out.result EXCEPT !.failedLines = @ + 1],
             calls |-> out.calls,
             errors |-> Append(st.errors,
                               [message |-> throwIn, ln |-> n, line |-> file[n]])]
       ELSE [context |-> out.context,
             result |-> [out.result EXCEPT !.totalLines = @ + 1],
             calls |-> out.calls,
             errors |-> st.errors]

(* the closure state of the call this.parseFile(filepath, options) *)
State ==
    [context |-> context, result |-> result, calls |-> onLogCalls,
     errors |-> onErrorCalls]

HandleLine(n) == HandleLineIn(n, parserCreated, State)

(* rl.on('close'): an exception raised here is caught by nothing, the promise *)
(* is never settled                                                           *)
CloseHandlerIn(format, st) ==
    IF st.context.previousLog # 0 /\ Len(st.context.stackLines) > 0
    THEN IF ParseThrows(st.context.previousLog)
         THEN [result |-> st.result, calls |-> st.calls, threw |-> TRUE]
         ELSE LET parsed == parseLine(format, st.context.previousLog)
              IN IF parsed # <<>>
                 THEN Emit(st.result, st.calls,
                           IF parsed[1].error
                           THEN [parsed[1] EXCEPT
                                   !.stack = parseStackTrace(st.context.stackLines)]
                           ELSE parsed[1])
                 ELSE [result |-> st.result, calls |-> st.calls, threw |-> FALSE]
    ELSE [result |-> st.result, calls |-> st.calls, threw |-> FALSE]

CloseHandler == CloseHandlerIn(parserCreated, State)

Close ==
    LET out == CloseHandler
    IN /\ result' = out.result
       /\ onLogCalls' = out.calls
       /\ pc' = IF out.threw THEN "crashed" ELSE "closed"
       /\ UNCHANGED <<context, onErrorCalls>>

----------------------------------------------------------------------------
(* Actions of parseFile *)

Inputs == <<file, maxLines, throwLine, throwIn, sample>>

(* the catch of parseFile: onError(error), then rethrow *)
Fail(message) ==
    /\ onErrorCalls' = Append(onErrorCalls, [message |-> message, ln |-> 0, line |-> ""])
    /\ rejection' = message
    /\ pc' = "rejected"
    /\ UNCHANGED parserCreated

(* parseFile up to the call of streamParse *)
DetectFormat ==
    /\ pc = "detect"
    /\ LET d == detectFormatFromFile
       IN /\ detection' = d
          /\ IF IsUnknown(d)
             THEN Fail("Unable to detect log format")
             ELSE IF d.format \notin ParserFormats
             THEN Fail("Unknown parser format")
             ELSE /\ parserCreated' = d.format
                  /\ pc' = "stream"
                  /\ UNCHANGED <<onErrorCalls, rejection>>
    /\ UNCHANGED <<Inputs, RecordVars, AnalyzerVars, MergeVars, PairVars, lineNumber, result, context, onLogCalls, onCompleteCalls>>

(* rl.on('line') while the interface is open *)
LineEvent ==
    /\ pc = "stream"
    /\ lineNumber < Len(file)
    /\ lineNumber' = lineNumber + 1
    /\ IF Exceeds(lineNumber + 1, maxLines)
       THEN Close
       ELSE LET out == HandleLine(lineNumber + 1)
            IN /\ context' = out.context
               /\ result' = out.result
               /\ onLogCalls' = out.calls
               /\ onErrorCalls' = out.errors
               /\ pc' = pc
    /\ UNCHANGED <<Inputs, RecordVars, AnalyzerVars, MergeVars, PairVars, detection, parserCreated, onCompleteCalls, rejection>>

(* a line already read when rl.close() was called: the handler runs again, *)
(* lineNumber > maxLines, rl.close() does nothing the second time           *)
LineAfterClose ==
    /\ pc = "closed"
    /\ lineNumber < Len(file)
    /\ lineNumber' = lineNumber + 1
    /\ IF Exceeds(lineNumber + 1, maxLines)
       THEN UNCHANGED <<context, result, onLogCalls, onErrorCalls>>
       ELSE LET out == HandleLine(lineNumber + 1)
            IN /\ context' = out.context
               /\ result' = out.result
               /\ onLogCalls' = out.calls
               /\ onErrorCalls' = out.errors
    /\ UNCHANGED <<Inputs, RecordVars, AnalyzerVars, MergeVars, PairVars, pc, detection, parserCreated, onCompleteCalls, rejection>>

(* end of input: rl emits 'close' *)
EndOfInput ==
    /\ pc = "stream"
    /\ lineNumber = Len(file)
    /\ Close
    /\ UNCHANGED <<Inputs, RecordVars, AnalyzerVars, MergeVars, PairVars, detection, parserCreated, lineNumber, onCompleteCalls, rejection>>

(* parseFile after streamParse resolved: onComplete(result); return result *)
Complete ==
    /\ pc = "closed"
    /\ lineNumber = Len(file) \/ Exceeds(lineNumber, maxLines)
    /\ onCompleteCalls' = onCompleteCalls + 1
    /\ pc' = "done"
    /\ UNCHANGED <<Inputs, RecordVars, AnalyzerVars, MergeVars, PairVars, detection, parserCreated, lineNumber, result, context,
                   onLogCalls, onErrorCalls, rejection>>

SeqsUpTo(S, n) == UNION {[1..m -> S] : m \in 0..n}

Init ==
    /\ file \in SeqsUpTo(LineKinds, MaxLen)
    /\ maxLines \in {Infinity} \cup 0..MaxLen
    /\ throwLine = 0
    /\ throwIn = "none"
    /\ pc = "detect"
    /\ detection = NoDetection
    /\ parserCreated = "none"
    /\ lineNumber = 0
    /\ result = NewResult
    /\ context = NewContext
    /\ onLogCalls = <<>>
    /\ onErrorCalls = <<>>
    /\ onCompleteCalls = 0
    /\ rejection = ""
    /\ sample = <<>>
    /\ RecordIdle
    /\ AnalyzerIdle
    /\ MergeIdle
    /\ PairIdle

Next ==
    \/ DetectFormat
    \/ LineEvent
    \/ LineAfterClose
    \/ EndOfInput
    \/ Complete

Spec == Init /\ [][Next]_vars

----------------------------------------------------------------------------
(* parseFile without a line budget, on a file one of whose lines raises an *)
(* exception when its record is made                                       *)

InitThrow ==
    /\ file \in SeqsUpTo(LineKinds, MaxLen)
    /\ maxLines = Infinity
    /\ throwLine \in 1..Len(file)
    /\ throwIn \in {"parseLine", "onLog"}
    /\ pc = "detect"
    /\ detection = NoDetection
    /\ parserCreated = "none"
    /\ lineNumber = 0
    /\ result = NewResult
    /\ context = NewContext
    /\ onLogCalls = <<>>
    /\ onErrorCalls = <<>>
    /\ onCompleteCalls = 0
    /\ rejection = ""
    /\ sample = <<>>
    /\ RecordIdle
    /\ AnalyzerIdle
    /\ MergeIdle
    /\ PairIdle

NextThrow ==
    \/ DetectFormat
    \/ LineEvent
    \/ EndOfInput
    \/ Complete

SpecThrow == InitThrow /\ [][NextThrow]_vars

----------------------------------------------------------------------------
(* FormatDetector.detect on its own, over every sample of DetectKinds *)

InitDetect ==
    /\ sample \in SeqsUpTo(DetectKinds, MaxSample)
    /\ pc = "sample"
    /\ file = <<>>
    /\ maxLines = Infinity
    /\ throwLine = 0
    /\ throwIn = "none"
    /\ detection = NoDetection
    /\ parserCreated = "none"
    /\ lineNumber = 0
    /\ result = NewResult
    /\ context = NewContext
    /\ onLogCalls = <<>>
    /\ onErrorCalls = <<>>
    /\ onCompleteCalls = 0
    /\ rejection = ""
    /\ RecordIdle
    /\ AnalyzerIdle
    /\ MergeIdle
    /\ PairIdle

RunDetect ==
    /\ pc = "sample"
    /\ detection' = detect(sample)
    /\ pc' = "detected"
    /\ UNCHANGED <<Inputs, RecordVars, AnalyzerVars, MergeVars, PairVars, parserCreated, lineNumber, result, context, onLogCalls,
                   onErrorCalls, onCompleteCalls, rejection>>

NextDetect == RunDetect

SpecDetect == InitDetect /\ [][NextDetect]_vars

----------------------------------------------------------------------------
(* Vocabulary of the properties *)

Logs == result.logs

(* the lines the line handler hands to the parser: all of them, or the first *)
(* maxLines                                                                  *)
Consumed == 1..(IF maxLines = Infinity THEN Len(file) ELSE Min(Len(file), maxLines))

(* a primary line: neither blank nor a stack continuation *)
IsPrimary(i) == ~IsBlank(file[i]) /\ ~IsStackLine(file[i])

StreamEnded == pc \in {"closed", "done"}

RecordsOf(seq, i) == {j \in 1..Len(seq) : seq[j].ln = i}

(* the consumed stack-continuation lines between primary line i and the next *)
(* primary line                                                              *)
NextPrimary(i) ==
    LET later == {j \in Consumed : j > i /\ IsPrimary(j)}
    IN IF later = {} THEN Len(file) + 1
       ELSE CHOOSE j \in later : \A k \in later : j <= k

RECURSIVE Continuations(_, _)
Continuations(from, to) ==
    IF from > to THEN <<>>
    ELSE IF from \in Consumed /\ IsStackLine(file[from])
         THEN <<from>> \o Continuations(from + 1, to)
         ELSE Continuations(from + 1, to)

ContinuationsOf(i) == Continuations(i + 1, NextPrimary(i) - 1)

StrictlyIncreasing(seq) ==
    \A j, k \in 1..Len(seq) : j < k => seq[j].ln < seq[k].ln

----------------------------------------------------------------------------
(* C1: on a Renderer file, once the stream has ended every non-blank primary *)
(* line among the consumed lines has its record in logs, whether or not      *)
(* stack-continuation lines followed it.                                     *)
C1_EveryPrimaryLineEmitted ==
    (parserCreated = RENDERER /\ StreamEnded)
        => \A i \in Consumed : IsPrimary(i) => RecordsOf(Logs, i) # {}

(* C2: on a Renderer file, each primary line yields at most one record in  *)
(* logs and at most one onLog call, blank lines between records included.   *)
C2_AtMostOneRecordPerLine ==
    parserCreated = RENDERER
        => \A i \in 1..Len(file) :
              /\ Cardinality(RecordsOf(Logs, i)) <= 1
              /\ Cardinality(RecordsOf(onLogCalls, i)) <= 1

(* C3: on a Renderer file, the stack frames attached to a record are exactly *)
(* the frames of the stack-continuation lines between the record's primary   *)
(* line and the next primary line; no continuation line that precedes a      *)
(* record's primary line is attached to it.                                  *)
C3_StackBelongsToItsRecord ==
    (parserCreated = RENDERER /\ StreamEnded)
        => \A j \in 1..Len(Logs) :
              Logs[j].stack = parseStackTrace(ContinuationsOf(Logs[j].ln))

(* C4: when parsing exactly one line throws, parseFile still completes,     *)
(* onError is invoked with that line's number and text, failedLines is 1    *)
(* and every other line that yields a record has it in logs.                *)
YieldsRecord(i) ==
    IF parserCreated = RENDERER THEN IsPrimary(i)
    ELSE parseLine(parserCreated, i) # <<>>

C4_OneThrowingLineIsIsolated ==
    (throwIn = "parseLine" /\ parserCreated \in ParserFormats)
        => /\ pc # "crashed"
           /\ \A c \in 1..Len(onErrorCalls) :
                 /\ onErrorCalls[c].ln = throwLine
                 /\ onErrorCalls[c].line = file[throwLine]
           /\ (pc = "done" /\ onErrorCalls # <<>>)
                 => /\ result.failedLines = 1
                    /\ Len(onErrorCalls) = 1
                    /\ \A i \in 1..Len(file) :
                          (i # throwLine /\ YieldsRecord(i))
                              => RecordsOf(Logs, i) # {}

(* C5: when detection returns UNKNOWN, parseFile rejects with 'Unable to   *)
(* detect log format' after exactly one onError call carrying it; no parser *)
(* is created, no line is streamed, onLog and onComplete are never called.  *)
C5_UnknownFormatIsFatal ==
    (pc # "detect" /\ detection.format = UNKNOWN)
        => /\ pc = "rejected"
           /\ rejection = "Unable to detect log format"
           /\ onErrorCalls = <<[message |-> "Unable to detect log format",
                                ln |-> 0, line |-> ""]>>
           /\ parserCreated = "none"
           /\ lineNumber = 0
           /\ result = NewResult
           /\ onLogCalls = <<>>
           /\ onCompleteCalls = 0

C5_Witness ==
    /\ pc = "rejected"
    /\ detection.format = UNKNOWN
    /\ Len(file) = MaxLen
    /\ \E i \in 1..Len(file) : ~IsBlank(file[i])

(* C6: the records in logs, and the onLog calls, are in strictly increasing *)
(* order of the line number of their primary line, for every format.        *)
C6_StrictlyIncreasingLineOrder ==
    StrictlyIncreasing(Logs) /\ StrictlyIncreasing(onLogCalls)

(* C7: with maxLines = M, totalLines <= M, every emitted record derives    *)
(* from one of the first M lines, and a line event delivered after the      *)
(* close request changes no counter and emits no record.                    *)
C7_LineBudget ==
    /\ [](maxLines # Infinity
            => /\ result.totalLines <= maxLines
               /\ \A j \in 1..Len(Logs) : Logs[j].ln <= maxLines
               /\ \A j \in 1..Len(onLogCalls) : onLogCalls[j].ln <= maxLines)
    /\ [][pc = "closed" => /\ result' = result
                           /\ onLogCalls' = onLogCalls
                           /\ onErrorCalls' = onErrorCalls
                           /\ context' = context]_vars

C7_Witness ==
    /\ pc = "closed"
    /\ maxLines # Infinity
    /\ lineNumber > maxLines + 1
    /\ result.totalLines = maxLines
    /\ Logs # <<>>

(* C8: a line for which the parser returns null is not counted as a        *)
(* failure: failedLines counts only the lines whose handling raised an      *)
(* exception, each of which is reported through onError.                    *)
LineErrors == SelectSeq(onErrorCalls, LAMBDA c : c.ln # 0)

C8_NullIsNotAFailure ==
    result.failedLines = Len(LineErrors)

(* C9: detect returns the format with the highest score and its score as   *)
(* confidence; among several formats with the highest score it returns the  *)
(* earliest in the order Renderer, HTTP, SyncApp, Performance, MountApp.    *)
ScoreAt(i) == ScorerResult(ScorerOrder[i], sample).score
MatchesAt(i) == ScorerResult(ScorerOrder[i], sample).matches
Scorers == 1..Len(ScorerOrder)

C9_HighestScoreEarliestWins ==
    (pc = "detected" /\ \E i \in Scorers : ScoreAt(i) > 0)
        => \E i \in Scorers :
              /\ detection.format = ScorerOrder[i]
              /\ detection.confidence = ScoreAt(i)
              /\ \A j \in Scorers : ScoreAt(j) <= ScoreAt(i)
              /\ \A j \in Scorers : j < i => ScoreAt(j) < ScoreAt(i)

C9_Witness ==
    /\ pc = "detected"
    /\ \E i, j \in Scorers :
          /\ 1 < i /\ i < j
          /\ detection.format = ScorerOrder[i]
          /\ ScoreAt(i) = ScoreAt(j)
          /\ ScoreAt(i) < SaturationMatches

(* C10: detect returns UNKNOWN exactly when all five scorers count zero    *)
(* hits, then with confidence 0 and the single fixed reason; otherwise the  *)
(* confidence is min(matches, 5) / 5 of the winning scorer, in (0, 1].      *)
(* Confidence is held in fifths.                                            *)
C10_UnknownIffNoHits ==
    pc = "detected"
        => /\ detection.format = UNKNOWN <=> \A i \in Scorers : MatchesAt(i) = 0
           /\ detection.format = UNKNOWN
                 => /\ detection.confidence = 0
                    /\ detection.reasons = <<"No matching format detected">>
           /\ detection.format # UNKNOWN
                 => \E i \in Scorers :
                       /\ detection.format = ScorerOrder[i]
                       /\ detection.confidence = Min(MatchesAt(i), 5)
                       /\ 0 < detection.confidence
                       /\ detection.confidence <= 5

C10_Witness ==
    /\ pc = "detected"
    /\ \E i \in Scorers :
          /\ detection.format = ScorerOrder[i]
          /\ MatchesAt(i) > SaturationMatches
          /\ detection.confidence = SaturationMatches

----------------------------------------------------------------------------
(* The record a parser's parseLine, or LogNormalizer.normalizeLine, makes   *)
(* of one line: its level and its timestamp.                                *)
(*                                                                          *)
(* Here a line is its shape, the level word it carries and its time text:   *)
(*  "text"     [<time>] [<level>] [auth] Login failed | user=x              *)
(*  "json"     {"Level":"<level>","Timestamp":"<time>","Caller":"a/b.go:1", *)
(*             "Message":"m"}, a field left out when it is "none"/"absent"  *)
(*  "chinese"  周三 <time> <level> mount started                            *)
(*  "plain"    random unstructured line                                     *)
(* time "valid"    2025-06-26 19:26:27 in a text line,                      *)
(*                 2025-06-26T19:26:27Z in JSON, 2025/06 11:55:50.67 in a   *)
(*                 chinese line                                             *)
(* time "invalid"  2025-13-45 25:61:61 in a text line, "not a time" in      *)
(*                 JSON, 2025/13 11:55:50.67 in a chinese line              *)
(* time "absent"   no time text                                             *)

MaxClock == 2
MaxCalls == 2

NORMALIZER == "normalizer"
Producers == ParserFormats \cup {NORMALIZER}

LevelWords == {"trace", "debug", "info", "warn", "warning", "error", "ERROR",
               "fatal", "critical", "verbose"}

RawLines ==
    {[shape |-> "text", level |-> l, time |-> t] :
        l \in LevelWords, t \in {"valid", "invalid"}}
    \cup {[shape |-> "json", level |-> l, time |-> t] :
        l \in LevelWords \cup {"none"}, t \in {"valid", "invalid", "absent"}}
    \cup {[shape |-> "chinese", level |-> l, time |-> t] :
        l \in LevelWords \cup {"none"}, t \in {"valid", "invalid"}}
    \cup {[shape |-> "plain", level |-> "none", time |-> "absent"]}

(* String.prototype.toUpperCase on a level word *)
toUpperCase(w) ==
    CASE w = "trace" -> "TRACE"
      [] w = "debug" -> "DEBUG"
      [] w = "info" -> "INFO"
      [] w = "warn" -> "WARN"
      [] w = "warning" -> "WARNING"
      [] w = "error" -> "ERROR"
      [] w = "fatal" -> "FATAL"
      [] w = "critical" -> "CRITICAL"
      [] w = "verbose" -> "VERBOSE"
      [] OTHER -> w

(* Timestamps: the instant written in the line, the reading of the clock    *)
(* (new Date().toISOString()), or the sentinel 'unknown'                    *)
OfLine == [src |-> "line", t |-> 0]
Now(now) == [src |-> "clock", t |-> now]
Unknown == [src |-> "unknown", t |-> 0]

(* a time string handed to parseTimestamp / extractTimestamp: undefined, the *)
(* time text of the line, or an ISO string made from the clock               *)
NoTimeStr == [src |-> "absent", t |-> 0]
TimeStrOf(line) == [src |-> line.time, t |-> 0]

(* BaseParser.parseTimestamp: no string gives now; an invalid date makes     *)
(* toISOString throw, and the catch gives now                                *)
parseTimestamp(timeStr, now) ==
    IF timeStr.src = "absent" THEN Now(now)
    ELSE IF timeStr.src = "clock" THEN timeStr
    ELSE IF timeStr.src = "valid" THEN OfLine
    ELSE Now(now)

(* BaseParser.normalizeLevel *)
normalizeLevel(level) ==
    IF level = "none" THEN "INFO"
    ELSE LET normalized == toUpperCase(level)
             validLevels == {"DEBUG", "INFO", "WARN", "WARNING", "ERROR",
                             "FATAL", "CRITICAL"}
         IN IF normalized \in validLevels THEN normalized
            ELSE IF normalized = "WARNING" THEN "WARN"
            ELSE "INFO"

(* BaseParser.createStandardLog *)
createStandardLog(data, now) ==
    [timestamp |-> parseTimestamp(data.timestamp, now),
     level |-> normalizeLevel(data.level),
     rawLine |-> data.rawLine,
     parseTime |-> Now(now)]

(* RendererParser.parseLine on a line that is not a stack line *)
RendererParser_parseLine(line, now) ==
    IF line.shape # "text"
    THEN <<createStandardLog([timestamp |-> Now(now), level |-> "INFO",
                              rawLine |-> line], now)>>
    ELSE <<createStandardLog([timestamp |-> TimeStrOf(line), level |-> line.level,
                              rawLine |-> line], now)>>

(* HttpParser.parseLine *)
HttpParser_parseLine(line, now) ==
    IF line.shape # "text"
    THEN <<createStandardLog([timestamp |-> Now(now), level |-> "INFO",
                              rawLine |-> line], now)>>
    ELSE <<createStandardLog(
              [timestamp |-> TimeStrOf(line),
               level |-> IF line.level = "error" THEN "ERROR"
                         ELSE IF line.level = "warn" THEN "WARN" ELSE "INFO",
               rawLine |-> line], now)>>

(* SyncAppParser.parseJsonObject *)
parseJsonObject(obj, now) ==
    LET timestamp == IF obj.time = "absent" THEN Now(now) ELSE TimeStrOf(obj)
        level == IF obj.level = "none" THEN "INFO" ELSE obj.level
    IN createStandardLog([timestamp |-> timestamp, level |-> level,
                          rawLine |-> obj], now)

(* SyncAppParser.parseLine *)
SyncAppParser_parseLine(line, now) ==
    IF line.shape # "json" THEN <<>> ELSE <<parseJsonObject(line, now)>>

(* PerformanceParser.parseLine *)
PerformanceParser_parseLine(line, now) ==
    IF line.shape # "text" THEN <<>>
    ELSE <<createStandardLog([timestamp |-> TimeStrOf(line),
                              level |-> normalizeLevel(line.level),
                              rawLine |-> line], now)>>

(* MountAppParser.detectLevel on a message that holds the level word *)
detectLevel(word) ==
    LET msgUpper == toUpperCase(word)
    IN IF msgUpper = "ERROR" THEN "ERROR"
       ELSE IF msgUpper \in {"WARN", "WARNING"} THEN "WARN"
       ELSE IF msgUpper \in {"FATAL", "CRITICAL"} THEN "ERROR"
       ELSE IF msgUpper = "DEBUG" THEN "DEBUG"
       ELSE "INFO"

(* MountAppParser.convertChineseTime: the ISO string of year, month and day  *)
(* 01, or now when that is no date                                           *)
convertChineseTime(line, now) ==
    IF line.time = "valid" THEN [src |-> "valid", t |-> 0] ELSE Now(now)

(* MountAppParser.parseLine on a line that is not blank *)
MountAppParser_parseLine(line, now) ==
    LET timestamp == IF line.shape = "chinese"
                     THEN convertChineseTime(line, now) ELSE Now(now)
    IN <<createStandardLog([timestamp |-> timestamp,
                            level |-> detectLevel(line.level),
                            rawLine |-> line], now)>>

(* LogNormalizer.extractTimestamp: the first pattern whose match is a valid  *)
(* date, else 'unknown'.  No pattern matches the time of a chinese line.     *)
extractTimestamp(text) ==
    IF text.src = "valid" THEN OfLine ELSE Unknown

(* StandardLogFormat.create *)
StandardLogFormat_create(config) ==
    [timestamp |-> config.timestamp,
     level |-> toUpperCase(config.level),
     message |-> config.message]

(* LogNormalizer.normalizeJsonLog *)
normalizeJsonLog(logDict) ==
    LET rawTimestamp == IF logDict.time = "absent" THEN NoTimeStr
                        ELSE TimeStrOf(logDict)
        timestamp == IF extractTimestamp(rawTimestamp) # Unknown
                     THEN extractTimestamp(rawTimestamp)
                     ELSE extractTimestamp(TimeStrOf(logDict))
        level == IF logDict.level = "none" THEN "INFO" ELSE logDict.level
    IN StandardLogFormat_create([timestamp |-> timestamp, level |-> level,
                                 message |-> logDict])

(* LogNormalizer.normalizeTextLog *)
normalizeTextLog(line) ==
    IF line.shape # "text" THEN <<>>
    ELSE <<StandardLogFormat_create([timestamp |-> extractTimestamp(TimeStrOf(line)),
                                     level |-> line.level,
                                     message |-> line])>>

(* LogNormalizer.normalizeLine on a line that is not blank *)
normalizeLine(line) ==
    IF line.shape = "json" THEN <<normalizeJsonLog(line)>>
    ELSE IF normalizeTextLog(line) # <<>> THEN normalizeTextLog(line)
    ELSE LET extractedTimestamp ==
                 IF line.shape = "chinese" THEN Unknown
                 ELSE extractTimestamp(TimeStrOf(line))
         IN <<StandardLogFormat_create([timestamp |-> extractedTimestamp,
                                        level |-> "INFO",
                                        message |-> line])>>

(* what producer p returns for the line when the clock reads now *)
Produce(p, line, now) ==
    CASE p = RENDERER -> RendererParser_parseLine(line, now)
      [] p = HTTP -> HttpParser_parseLine(line, now)
      [] p = SYNC_APP -> SyncAppParser_parseLine(line, now)
      [] p = PERFORMANCE -> PerformanceParser_parseLine(line, now)
      [] p = MOUNT_APP -> MountAppParser_parseLine(line, now)
      [] p = NORMALIZER -> normalizeLine(line)

(* time passes *)
Tick ==
    /\ pc = "record"
    /\ clock < MaxClock
    /\ clock' = clock + 1
    /\ UNCHANGED <<pc, rawLine, producer, records, ManagerVars, AnalyzerVars,
                   MergeVars, PairVars>>

(* the line is handed to producer p, for the first time or once more *)
Call(p) ==
    /\ pc = "record"
    /\ Len(records) < MaxCalls
    /\ records = <<>> \/ producer = p
    /\ producer' = p
    /\ records' = Append(records, [at |-> clock, out |-> Produce(p, rawLine, clock)])
    /\ UNCHANGED <<pc, rawLine, clock, ManagerVars, AnalyzerVars, MergeVars, PairVars>>

ManagerIdle ==
    /\ file = <<>>
    /\ maxLines = Infinity
    /\ throwLine = 0
    /\ throwIn = "none"
    /\ detection = NoDetection
    /\ parserCreated = "none"
    /\ lineNumber = 0
    /\ result = NewResult
    /\ context = NewContext
    /\ onLogCalls = <<>>
    /\ onErrorCalls = <<>>
    /\ onCompleteCalls = 0
    /\ rejection = ""
    /\ sample = <<>>

InitRecord ==
    /\ pc = "record"
    /\ rawLine \in RawLines
    /\ clock = 1
    /\ producer = "none"
    /\ records = <<>>
    /\ ManagerIdle
    /\ AnalyzerIdle
    /\ MergeIdle
    /\ PairIdle

NextRecord ==
    \/ Tick
    \/ \E p \in Producers : Call(p)

SpecRecord == InitRecord /\ [][NextRecord]_vars

(* Vocabulary of the properties: the records returned so far *)
Returned == {records[i].out[1] : i \in {j \in DOMAIN records : records[j].out # <<>>}}

Levels == {"TRACE", "DEBUG", "INFO", "WARN", "ERROR", "FATAL", "CRITICAL"}

(* the producers that read the level from a field of the line *)
ReadsLevel(p, line) ==
    \/ line.shape = "text" /\ p \in {RENDERER, HTTP, PERFORMANCE, NORMALIZER}
    \/ line.shape = "json" /\ p \in {SYNC_APP, NORMALIZER}

LevelOf(word) ==
    IF word = "none" THEN "INFO"
    ELSE IF toUpperCase(word) \in Levels THEN toUpperCase(word)
    ELSE IF toUpperCase(word) = "WARNING" THEN "WARN"
    ELSE "INFO"

(* C11: every record a format parser or StandardLogFormat.create emits has  *)
(* its level in {TRACE, DEBUG, INFO, WARN, ERROR, FATAL, CRITICAL}: the      *)
(* input level equal to one of these ignoring case gives it, WARNING gives   *)
(* WARN, any other input level gives INFO.                                   *)
C11_LevelInClosedEnumeration ==
    \A log \in Returned :
        /\ log.level \in Levels
        /\ ReadsLevel(producer, rawLine) => log.level = LevelOf(rawLine.level)

(* C12: a line whose timestamp cannot be recovered (no time text, or text    *)
(* that is no date) gives a record whose timestamp is 'unknown', never the   *)
(* reading of the clock, whichever parser or the normalizer made it.         *)
C12_NoTimestampIsUnknown ==
    \A log \in Returned :
        rawLine.time \in {"absent", "invalid"} => log.timestamp = Unknown

(* C13: handing the same line to the same parser or to the normalizer       *)
(* twice, at any two moments, gives records equal in every field except      *)
(* parseTime.                                                                *)
ExceptParseTime(log) == [f \in DOMAIN log \ {"parseTime"} |-> log[f]]

C13_SameLineSameRecord ==
    \A i, j \in DOMAIN records :
        /\ (records[i].out = <<>>) <=> (records[j].out = <<>>)
        /\ records[i].out # <<>>
              => ExceptParseTime(records[i].out[1]) = ExceptParseTime(records[j].out[1])

----------------------------------------------------------------------------
(* LogAnalyzer (its source is carried by src/README.md, lines 111-514):     *)
(* analyzeLog, parseLogLine, detectPatterns, categorizeByLevel and           *)
(* clusterSimilarLines.                                                      *)
(*                                                                          *)
(* Here a line is [kind, unit, num]: the words of the line, and the number   *)
(* <num> it carries, which masking replaces by a placeholder:                *)
(*  "error"    [2025-01-01 10:00:<num>] [ERROR] [auth] Login failed |        *)
(*             errMsg=Invalid credentials   (masked with its timestamp)      *)
(*  "oom"      OutOfMemoryError at line <num>                                *)
(*  "warning"  WARNING: request timeout after <num> ms                       *)
(*  "plain"    random unstructured line (unit 0), or                         *)
(*             worker-<unit letters> finished job <num> (unit > 0)           *)
(* content.split('\n') always gives at least one line.                       *)

MaxContent == 3
MaxRun == 11
MaxPatterns == 3
MaxTemplates == 22

SampleLines == 10
DefaultThreshold == 5
TopClusters == 20

AnalyzerKinds == {"error", "oom", "warning", "plain"}

(* the lines of a content whose i-th line is of kind kinds[i] *)
LinesOf(kinds) ==
    [i \in DOMAIN kinds |-> [kind |-> kinds[i], unit |-> 0, num |-> i]]

ShortContents == {LinesOf(kinds) : kinds \in SeqsUpTo(AnalyzerKinds, MaxContent) \ {<<>>}}

(* n lines of one kind *)
RunContents ==
    {LinesOf([i \in 1..n |-> k]) : k \in AnalyzerKinds, n \in SampleLines..MaxRun}

(* k templates, taken in turns: the first a of them on 4 lines each, the    *)
(* next up to the b-th on 5 lines, the others on 6 lines                    *)
TurnsContent(k, a, b) ==
    LET lines(u) == IF u <= a THEN 4 ELSE IF u <= b THEN 5 ELSE 6
        turns == [i \in 1..(6 * k) |-> [turn |-> ((i - 1) \div k) + 1,
                                         unit |-> ((i - 1) % k) + 1]]
        kept == SelectSeq(turns, LAMBDA p : p.turn <= lines(p.unit))
    IN [i \in DOMAIN kept |-> [kind |-> "plain", unit |-> kept[i].unit, num |-> i]]

ManyTemplateContents ==
    {TurnsContent(t[1], t[2], t[3]) :
        t \in {t \in (1..MaxTemplates) \X (0..MaxTemplates) \X (0..MaxTemplates) :
                  t[2] <= t[3] /\ t[3] <= t[1]}}

(* this.kb.getAllPatterns(): DetectionPattern rows *)
PatternRows ==
    {[id |-> 1, pattern_type |-> "keyword", pattern_value |-> "OutOfMemoryError",
      severity |-> "CRITICAL"],
     [id |-> 2, pattern_type |-> "regex", pattern_value |-> "time(d )?out",
      severity |-> "HIGH"],
     [id |-> 3, pattern_type |-> "regex", pattern_value |-> "error",
      severity |-> "LOW"],
     [id |-> 4, pattern_type |-> "keyword", pattern_value |-> "Login failed",
      severity |-> "LOW"],
     [id |-> 5, pattern_type |-> "regex", pattern_value |-> "(",
      severity |-> "MEDIUM"]}

PatternLists ==
    {ps \in SeqsUpTo(PatternRows, MaxPatterns) :
        \A i, j \in DOMAIN ps : i # j => ps[i].id # ps[j].id}

NoLevel == "null"

(* the first word of the line that levelPattern matches, upper-cased *)
LevelWordOf(line) ==
    CASE line.kind = "error" -> "ERROR"
      [] line.kind = "warning" -> "WARNING"
      [] OTHER -> NoLevel

(* LogAnalyzer.parseLogLine *)
parseLogLine(line, number) ==
    [lineNumber |-> number,
     timestamp |-> IF line.kind = "error" THEN "2025-01-01 10:00:00" ELSE "null",
     level |-> LevelWordOf(line),
     message |-> line]

(* String.prototype.includes *)
Includes(message, value) ==
    \/ value = "OutOfMemoryError" /\ message.kind = "oom"
    \/ value = "Login failed" /\ message.kind = "error"

(* new RegExp(value, 'gi') throws *)
IsInvalidRegex(value) == value = "("

(* regex.test(message) with the flags gi, lastIndex reset before *)
RegexTest(value, message) ==
    \/ value = "time(d )?out" /\ message.kind = "warning"
    \/ value = "error" /\ message.kind \in {"error", "oom"}

(* detectPatterns: isMatch *)
IsMatch(pattern, parsedLine) ==
    IF pattern.pattern_type = "keyword"
    THEN Includes(parsedLine.message, pattern.pattern_value)
    ELSE pattern.pattern_type = "regex" /\ RegexTest(pattern.pattern_value, parsedLine.message)

(* matches.slice(0, 10).map(m => m.lineNumber) *)
SampleOfAll(matches) == [i \in DOMAIN matches |-> matches[i].lineNumber]
SampleOf(matches) ==
    [i \in 1..Min(SampleLines, Len(matches)) |-> matches[i].lineNumber]

(* detectPatterns: the issue pushed for a pattern with matches *)
IssueOf(pattern, matches) ==
    [pattern_id |-> pattern.id,
     severity |-> pattern.severity,
     occurrence_count |-> Len(matches),
     first_occurrence_line |-> matches[1].lineNumber,
     sample_lines |-> SampleOf(matches),
     matches |-> [i \in DOMAIN matches |->
                     [lineNumber |-> matches[i].lineNumber, level |-> matches[i].level]]]

(* detectPatterns: patterns.forEach; an invalid regex returns from the      *)
(* callback, the next pattern follows                                       *)
RECURSIVE CollectIssuesAbort(_, _)
CollectIssuesAbort(parsedLines, pats) ==
    IF pats = <<>> THEN <<>>
    ELSE LET pattern == Head(pats)
             matches == SelectSeq(parsedLines, LAMBDA l : IsMatch(pattern, l))
         IN IF pattern.pattern_type = "regex" /\ IsInvalidRegex(pattern.pattern_value)
            THEN <<>>
            ELSE IF Len(matches) > 0
            THEN <<IssueOf(pattern, matches)>> \o CollectIssuesAbort(parsedLines, Tail(pats))
            ELSE CollectIssuesAbort(parsedLines, Tail(pats))

RECURSIVE CollectIssues(_, _)
CollectIssues(parsedLines, pats) ==
    IF pats = <<>> THEN <<>>
    ELSE LET pattern == Head(pats)
             matches == SelectSeq(parsedLines, LAMBDA l : IsMatch(pattern, l))
         IN IF pattern.pattern_type = "regex" /\ IsInvalidRegex(pattern.pattern_value)
            THEN CollectIssues(parsedLines, Tail(pats))
            ELSE IF Len(matches) > 0
            THEN <<IssueOf(pattern, matches)>> \o CollectIssues(parsedLines, Tail(pats))
            ELSE CollectIssues(parsedLines, Tail(pats))

severityOrder(severity) ==
    CASE severity = "CRITICAL" -> 0
      [] severity = "HIGH" -> 1
      [] severity = "MEDIUM" -> 2
      [] severity = "LOW" -> 3

(* the comparator of detectedIssues.sort: negative when a goes first *)
CompareIssuesByCountOnly(a, b) == b.occurrence_count - a.occurrence_count
CompareIssues(a, b) ==
    LET severityDiff == severityOrder(a.severity) - severityOrder(b.severity)
    IN IF severityDiff # 0 THEN severityDiff
       ELSE b.occurrence_count - a.occurrence_count

(* Array.prototype.sort, which is stable: x goes behind what it does not    *)
(* precede                                                                  *)
RECURSIVE InsertIssue(_, _)
InsertIssue(x, sorted) ==
    IF sorted = <<>> THEN <<x>>
    ELSE IF CompareIssues(x, Head(sorted)) < 0 THEN <<x>> \o sorted
    ELSE <<Head(sorted)>> \o InsertIssue(x, Tail(sorted))

RECURSIVE SortIssues(_, _)
SortIssues(issues, acc) ==
    IF issues = <<>> THEN acc
    ELSE SortIssues(Tail(issues), InsertIssue(Head(issues), acc))

(* LogAnalyzer.detectPatterns *)
detectPatterns(parsedLines, pats) ==
    SortIssues(CollectIssues(parsedLines, pats), <<>>)

(* LogAnalyzer.categorizeByLevel; no line of the model carries SEVERE *)
LevelKeys == {"FATAL", "CRITICAL", "ERROR", "WARN", "WARNING", "INFO", "DEBUG",
              "TRACE", "UNKNOWN"}

categorizeByLevel(parsedLines) ==
    [level \in LevelKeys |->
        Cardinality({i \in DOMAIN parsedLines :
            IF parsedLines[i].level # NoLevel
            THEN parsedLines[i].level = level
            ELSE level = "UNKNOWN"})]

(* clusterSimilarLines: the chain of replace calls on line.message; the     *)
(* number of the line becomes <NUM>, its words stay                         *)
Mask(message) == [kind |-> message.kind, unit |-> message.unit]

(* the keys of the Map clusters, in insertion order *)
RECURSIVE ClusterKeys(_, _)
ClusterKeys(parsedLines, keys) ==
    IF parsedLines = <<>> THEN keys
    ELSE LET normalized == Mask(Head(parsedLines).message)
         IN IF \E i \in DOMAIN keys : keys[i] = normalized
            THEN ClusterKeys(Tail(parsedLines), keys)
            ELSE ClusterKeys(Tail(parsedLines), Append(keys, normalized))

(* the value of the Map under normalized, when all lines are in *)
ClusterOf(normalized, parsedLines) ==
    LET members == SelectSeq(parsedLines, LAMBDA l : Mask(l.message) = normalized)
    IN [pattern |-> normalized,
        sample |-> members[1].message,
        count |-> Len(members),
        lineNumbers |-> [i \in DOMAIN members |-> members[i].lineNumber]]

(* .filter(cluster => cluster.count >= threshold) *)
IsFrequentStrictly(cluster, t) == cluster.count > t
IsFrequent(cluster, t) == cluster.count >= t

(* .sort((a, b) => b.count - a.count), stable *)
RECURSIVE InsertCluster(_, _)
InsertCluster(x, sorted) ==
    IF sorted = <<>> THEN <<x>>
    ELSE IF Head(sorted).count - x.count > 0 \/ Head(sorted).count = x.count
    THEN <<Head(sorted)>> \o InsertCluster(x, Tail(sorted))
    ELSE <<x>> \o sorted

RECURSIVE SortClusters(_, _)
SortClusters(clusters, acc) ==
    IF clusters = <<>> THEN acc
    ELSE SortClusters(Tail(clusters), InsertCluster(Head(clusters), acc))

(* LogAnalyzer.clusterSimilarLines *)
clusterSimilarLines(parsedLines, t) ==
    LET keys == ClusterKeys(parsedLines, <<>>)
        clusters == [i \in DOMAIN keys |-> ClusterOf(keys[i], parsedLines)]
        frequent == SelectSeq(clusters, LAMBDA c : IsFrequent(c, t))
    IN Slice(SortClusters(frequent, <<>>), TopClusters)

(* analyzeLog: lines.map((line, idx) => this.parseLogLine(line, idx + 1)) *)
ParsedLines(lines) == [i \in DOMAIN lines |-> parseLogLine(lines[i], i)]

(* LogAnalyzer.analyzeLog *)
analyzeLog(lines, pats) ==
    LET parsedLines == ParsedLines(lines)
    IN [totalLines |-> Len(lines),
        detectedIssues |-> detectPatterns(parsedLines, pats),
        levelCounts |-> categorizeByLevel(parsedLines),
        clusters |-> clusterSimilarLines(parsedLines, DefaultThreshold)]

AnalyzeLog ==
    /\ pc = "analyze"
    /\ analysis' = analyzeLog(content, patterns)
    /\ pc' = "analyzed"
    /\ UNCHANGED <<content, patterns, threshold, ManagerVars, RecordVars, MergeVars, PairVars>>

(* clusterSimilarLines called with a threshold of its own *)
ClusterSimilarLines ==
    /\ pc = "analyze"
    /\ analysis' = [clusters |-> clusterSimilarLines(ParsedLines(content), threshold)]
    /\ pc' = "clustered"
    /\ UNCHANGED <<content, patterns, threshold, ManagerVars, RecordVars, MergeVars, PairVars>>

InitAnalyze ==
    /\ pc = "analyze"
    /\ \/ /\ content \in ShortContents \cup RunContents
          /\ patterns \in PatternLists
          /\ threshold = DefaultThreshold
       \/ /\ content \in ManyTemplateContents
          /\ patterns = <<>>
          /\ threshold \in {1, DefaultThreshold}
    /\ analysis = <<>>
    /\ ManagerIdle
    /\ RecordIdle
    /\ MergeIdle
    /\ PairIdle

NextAnalyze ==
    \/ AnalyzeLog
    \/ ClusterSimilarLines

SpecAnalyze == InitAnalyze /\ [][NextAnalyze]_vars

----------------------------------------------------------------------------
(* Vocabulary of the properties of LogAnalyzer *)

Issues == analysis.detectedIssues

SeverityRanks == <<"CRITICAL", "HIGH", "MEDIUM", "LOW">>
RankOf(issue) == CHOOSE r \in DOMAIN SeverityRanks : SeverityRanks[r] = issue.severity

(* the numbers of the lines of the content that the pattern matches *)
MatchingLines(pattern) ==
    {i \in DOMAIN content : IsMatch(pattern, parseLogLine(content[i], i))}

IssuesFor(id) == {i \in DOMAIN Issues : Issues[i].pattern_id = id}

(* seq lists the first n members of the set S of numbers, in increasing order *)
IsFirstOf(seq, n, S) ==
    /\ Len(seq) = n
    /\ \A k \in DOMAIN seq :
          /\ seq[k] \in S
          /\ Cardinality({m \in S : m < seq[k]}) = k - 1

C15_OneIssuePerMatchingPattern ==
    pc = "analyzed"
        => /\ \A i \in DOMAIN Issues : \E p \in DOMAIN patterns :
                 patterns[p].id = Issues[i].pattern_id
           /\ \A p \in DOMAIN patterns :
                 LET M == MatchingLines(patterns[p])
                 IN /\ Cardinality(IssuesFor(patterns[p].id)) = IF M = {} THEN 0 ELSE 1
                    /\ \A i \in IssuesFor(patterns[p].id) :
                          /\ Issues[i].occurrence_count = Cardinality(M)
                          /\ Len(Issues[i].matches) = Cardinality(M)
                          /\ Issues[i].first_occurrence_line \in M
                          /\ \A m \in M : Issues[i].first_occurrence_line <= m
                          /\ IsFirstOf(Issues[i].sample_lines,
                                       IF Cardinality(M) < 10 THEN Cardinality(M) ELSE 10,
                                       M)

C15_Witness ==
    /\ pc = "analyzed"
    /\ \E i \in DOMAIN Issues :
          /\ Issues[i].occurrence_count > 10
          /\ Len(Issues[i].sample_lines) = 10

(* C16: a regex pattern whose pattern_value does not compile raises no       *)
(* error and gets no issue, and the other patterns get exactly the issues    *)
(* they get when the invalid pattern is not in the list.                     *)
IsInvalid(pattern) == pattern.pattern_type = "regex" /\ pattern.pattern_value = "("

C16_InvalidRegexIsSkipped ==
    pc = "analyzed"
        => /\ \A p \in DOMAIN patterns :
                 IsInvalid(patterns[p]) => IssuesFor(patterns[p].id) = {}
           /\ Issues = detectPatterns(ParsedLines(content),
                                      SelectSeq(patterns, LAMBDA p : ~IsInvalid(p)))

C16_Witness ==
    /\ pc = "analyzed"
    /\ Len(patterns) = 3
    /\ IsInvalid(patterns[2])
    /\ IssuesFor(patterns[1].id) # {}
    /\ IssuesFor(patterns[3].id) # {}

(* C17: clusterSimilarLines returns a cluster for a template only if at      *)
(* least threshold (default 5) lines share it; all of these when they are    *)
(* at most 20, else the 20 of highest count, in non-increasing count order;  *)
(* a cluster's count is the number of lines of its template and the length   *)
(* of its lineNumbers.  Four lines of one template give no cluster, five     *)
(* give one cluster of count 5.                                              *)
Clusters == analysis.clusters
ThresholdUsed == IF pc = "clustered" THEN threshold ELSE DefaultThreshold
LinesOfTemplate(tpl) == {i \in DOMAIN content : Mask(content[i]) = tpl}
Frequent ==
    {tpl \in {Mask(content[i]) : i \in DOMAIN content} :
        Cardinality(LinesOfTemplate(tpl)) >= ThresholdUsed}
Clustered == {Clusters[i].pattern : i \in DOMAIN Clusters}

C17_FrequentTemplatesTop20 ==
    pc \in {"analyzed", "clustered"}
        => LET frequent == Frequent
               clustered == Clustered
               lines == [tpl \in frequent |-> Cardinality(LinesOfTemplate(tpl))]
           IN /\ \A i \in DOMAIN Clusters :
                    /\ Clusters[i].pattern \in frequent
                    /\ Clusters[i].count = lines[Clusters[i].pattern]
                    /\ Clusters[i].count = Len(Clusters[i].lineNumbers)
              /\ \A i, j \in DOMAIN Clusters :
                    /\ i < j => Clusters[i].count >= Clusters[j].count
                    /\ i # j => Clusters[i].pattern # Clusters[j].pattern
              /\ IF Cardinality(frequent) <= 20
                 THEN clustered = frequent
                 ELSE /\ Len(Clusters) = 20
                      /\ \A tpl \in frequent \ clustered : \A i \in DOMAIN Clusters :
                            Clusters[i].count >= lines[tpl]
              /\ (ThresholdUsed = 5 /\ Len(content) = 4 /\ LinesOfTemplate(Mask(content[1])) = 1..4)
                    => Clusters = <<>>
              /\ (ThresholdUsed = 5 /\ Len(content) = 5 /\ LinesOfTemplate(Mask(content[1])) = 1..5)
                    => Len(Clusters) = 1 /\ Clusters[1].count = 5

C17_Witness ==
    /\ pc = "clustered"
    /\ threshold = 5
    /\ Cardinality(Frequent) > 20
    /\ Len(Clusters) = 20
    /\ Clusters[1].count = 6
    /\ Clusters[20].count = 5
    /\ \E tpl \in Frequent \ Clustered : Cardinality(LinesOfTemplate(tpl)) = 5
    /\ \E i \in DOMAIN content : Cardinality(LinesOfTemplate(Mask(content[i]))) = 4

(* C18: analyze counts every line under exactly one level, a line without   *)
(* an explicit level under INFO; for the three lines '[2025-01-01 10:00:00]  *)
(* [ERROR] [auth] Login failed | errMsg=Invalid credentials',                *)
(* 'OutOfMemoryError at line 2', 'random unstructured line' and the keyword  *)
(* pattern OutOfMemoryError, detectedIssues has exactly one entry, with      *)
(* occurrence_count 1, and levelCounts is {ERROR: 1, INFO: 2}.               *)
RECURSIVE SumOver(_, _)
SumOver(counts, keys) ==
    IF keys = {} THEN 0
    ELSE LET k == CHOOSE k \in keys : TRUE
         IN counts[k] + SumOver(counts, keys \ {k})

IsScenario ==
    /\ content = LinesOf(<<"error", "oom", "plain">>)
    /\ Len(patterns) = 1
    /\ patterns[1].pattern_type = "keyword"
    /\ patterns[1].pattern_value = "OutOfMemoryError"

----------------------------------------------------------------------------
(* The upload handler of src/server.js: the analyses of the files of an     *)
(* archive merged into allDetectedIssues, combinedLevelCounts and            *)
(* combinedClusters (lines 200-292).  The normalized lines the handler       *)
(* writes on the way do not enter the merge.                                 *)

MaxFiles == 5

FileClusters == 5
MergedClusters == 20

(* the contents of the files of an archive *)
ArchiveFiles ==
    {LinesOf(<<"oom">>),
     LinesOf(<<"error", "oom", "oom">>),
     LinesOf(<<"warning">>),
     TurnsContent(5, 0, 5),
     TurnsContent(6, 0, 0)}

(* the patterns of the knowledge base, by id *)
KbPatterns ==
    [i \in 1..Cardinality(PatternRows) |-> CHOOSE p \in PatternRows : p.id = i]

(* the entry of issue.files for one file *)
FileEntry(filePath, issue) ==
    [path |-> filePath, occurrences |-> issue.occurrence_count,
     matches |-> issue.matches]

(* existingIssue.occurrence_count += issue.occurrence_count *)
AddCountKeepFirst(existing, added) == existing
AddCount(existing, added) == existing + added

(* analysis.detectedIssues.forEach body: find by pattern_id, add or push *)
MergeIssue(all, issue, filePath) ==
    IF \E i \in DOMAIN all : all[i].pattern_id = issue.pattern_id
    THEN LET e == CHOOSE i \in DOMAIN all :
                     /\ all[i].pattern_id = issue.pattern_id
                     /\ \A j \in 1..(i - 1) : all[j].pattern_id # issue.pattern_id
         IN [all EXCEPT ![e] =
                [all[e] EXCEPT
                    !.occurrence_count = AddCount(@, issue.occurrence_count),
                    !.files = Append(@, FileEntry(filePath, issue))]]
    ELSE Append(all, [pattern_id |-> issue.pattern_id,
                      severity |-> issue.severity,
                      occurrence_count |-> issue.occurrence_count,
                      first_occurrence_line |-> issue.first_occurrence_line,
                      sample_lines |-> issue.sample_lines,
                      matches |-> issue.matches,
                      files |-> <<FileEntry(filePath, issue)>>])

RECURSIVE MergeIssues(_, _, _)
MergeIssues(all, issues, filePath) ==
    IF issues = <<>> THEN all
    ELSE MergeIssues(MergeIssue(all, Head(issues), filePath), Tail(issues), filePath)

(* Object.keys(analysis.levelCounts).forEach(...) *)
MergeLevelCounts(combined, levelCounts) ==
    [level \in DOMAIN combined \cup DOMAIN levelCounts |->
        (IF level \in DOMAIN combined THEN combined[level] ELSE 0)
        + (IF level \in DOMAIN levelCounts THEN levelCounts[level] ELSE 0)]

(* analysis.clusters.slice(0, 5) *)
TopOfFile(clusters) == Slice(clusters, FileClusters)

(* the body of Object.entries(result.extractedFiles).forEach for one file *)
MergeFile(lines) ==
    /\ pc = "merge"
    /\ Len(extractedFiles) < MaxFiles
    /\ LET filePath == Len(extractedFiles) + 1
           fileAnalysis == analyzeLog(lines, KbPatterns)
       IN /\ extractedFiles' = Append(extractedFiles,
                                      [path |-> filePath, analysis |-> fileAnalysis])
          /\ combinedLevelCounts' = MergeLevelCounts(combinedLevelCounts,
                                                     fileAnalysis.levelCounts)
          /\ allDetectedIssues' = MergeIssues(allDetectedIssues,
                                              fileAnalysis.detectedIssues, filePath)
          /\ combinedClusters' = combinedClusters \o TopOfFile(fileAnalysis.clusters)
    /\ UNCHANGED <<pc, ManagerVars, RecordVars, AnalyzerVars, PairVars>>

(* after the last file: combinedClusters.sort(...), .slice(0, 20) *)
SortAndTruncate ==
    /\ pc = "merge"
    /\ combinedClusters' = Slice(SortClusters(combinedClusters, <<>>), MergedClusters)
    /\ pc' = "merged"
    /\ UNCHANGED <<extractedFiles, allDetectedIssues, combinedLevelCounts,
                   ManagerVars, RecordVars, AnalyzerVars, PairVars>>

InitMerge ==
    /\ pc = "merge"
    /\ MergeIdle
    /\ PairIdle
    /\ ManagerIdle
    /\ RecordIdle
    /\ AnalyzerIdle

NextMerge ==
    \/ \E lines \in ArchiveFiles : MergeFile(lines)
    \/ SortAndTruncate

SpecMerge == InitMerge /\ [][NextMerge]_vars

(* Vocabulary of the properties of the merge *)

Files == DOMAIN extractedFiles

(* the issues of file f for the pattern id *)
FileIssues(f, id) ==
    {i \in DOMAIN extractedFiles[f].analysis.detectedIssues :
        extractedFiles[f].analysis.detectedIssues[i].pattern_id = id}

FilesWith(id) == {f \in Files : FileIssues(f, id) # {}}

CountIn(f, id) ==
    LET issues == extractedFiles[f].analysis.detectedIssues
    IN IF FileIssues(f, id) = {} THEN 0
       ELSE issues[CHOOSE i \in FileIssues(f, id) : TRUE].occurrence_count

RECURSIVE SumOf(_, _)
SumOf(f(_), S) ==
    IF S = {} THEN 0
    ELSE LET x == CHOOSE x \in S : TRUE IN f(x) + SumOf(f, S \ {x})

PatternIds == {KbPatterns[i].id : i \in DOMAIN KbPatterns}

MergedFor(id) == {i \in DOMAIN allDetectedIssues : allDetectedIssues[i].pattern_id = id}

(* C19: after the merge of the analyses of any files, each pattern_id is in *)
(* exactly one merged issue; its occurrence_count is the sum of the         *)
(* pattern's counts in the files, its files list has exactly one entry per   *)
(* file in which the pattern occurred, and the occurrences of the entries    *)
(* add up to occurrence_count.                                               *)
C19_OneMergedIssuePerPattern ==
    \A id \in PatternIds :
        /\ Cardinality(MergedFor(id)) = IF FilesWith(id) = {} THEN 0 ELSE 1
        /\ \A i \in MergedFor(id) :
              LET issue == allDetectedIssues[i]
                  Occurrences(k) == issue.files[k].occurrences
                  InFile(f) == CountIn(f, id)
              IN /\ issue.occurrence_count = SumOf(InFile, FilesWith(id))
                 /\ {issue.files[k].path : k \in DOMAIN issue.files} = FilesWith(id)
                 /\ Len(issue.files) = Cardinality(FilesWith(id))
                 /\ \A k \in DOMAIN issue.files :
                       issue.files[k].occurrences = CountIn(issue.files[k].path, id)
                 /\ SumOf(Occurrences, DOMAIN issue.files) = issue.occurrence_count

C19_Witness ==
    /\ pc = "merged"
    /\ Len(extractedFiles) = 3
    /\ \E id \in PatternIds : \E f, g \in Files :
          /\ Cardinality(FilesWith(id)) = 2
          /\ f \in FilesWith(id) /\ g \in FilesWith(id)
          /\ CountIn(f, id) = 1
          /\ CountIn(g, id) = 2
          /\ \E i \in MergedFor(id) : allDetectedIssues[i].occurrence_count = 3
    /\ Len(allDetectedIssues) > 1

(* the clusters the analyses of the files returned, and the first five of    *)
(* each file, as sets of <<file, position>>                                  *)
Pooled ==
    {p \in Files \X (1..TopClusters) :
        p[2] <= Len(extractedFiles[p[1]].analysis.clusters)}

PooledTopFive == {p \in Pooled : p[2] <= 5}

CountAt(p) == extractedFiles[p[1]].analysis.clusters[p[2]].count

KeptWith(v) == Cardinality({i \in DOMAIN combinedClusters : combinedClusters[i].count = v})

NonIncreasing ==
    \A i, j \in DOMAIN combinedClusters :
        i < j => combinedClusters[i].count >= combinedClusters[j].count

(* the merged list is the 20 of highest count of the pool, or all of it *)
IsTopOf(pool) ==
    /\ NonIncreasing
    /\ Len(combinedClusters) = Min(20, Cardinality(pool))
    /\ \A p \in pool :
          LET v == CountAt(p)
          IN /\ KeptWith(v) <= Cardinality({q \in pool : CountAt(q) = v})
             /\ KeptWith(v) < Cardinality({q \in pool : CountAt(q) = v})
                   => \A i \in DOMAIN combinedClusters : combinedClusters[i].count >= v
    /\ \A i \in DOMAIN combinedClusters :
          \E p \in pool : CountAt(p) = combinedClusters[i].count

(* C20: the merged cluster list of an archive is the top 20 by count of the *)
(* pooled clusters of all its files: no cluster returned by the analysis of  *)
(* a file is left out while a cluster of strictly smaller count is kept.     *)
C20_TopTwentyOfAllClusters ==
    pc = "merged" => IsTopOf(Pooled)

(* what the code does instead: the merged cluster list is the top 20 by    *)
(* count of the pool of the first five clusters of each file                 *)
TopTwentyOfFirstFivePerFile ==
    pc = "merged" => IsTopOf(PooledTopFive)

----------------------------------------------------------------------------
(* Further properties of parseFile *)

(* the unbroken run of stack-continuation lines that starts at line from, in *)
(* the whole file                                                            *)
RECURSIVE StackRun(_)
StackRun(from) ==
    IF from <= Len(file) /\ IsStackLine(file[from])
    THEN <<from>> \o StackRun(from + 1)
    ELSE <<>>

(* C23: on a Renderer file whose maxLines boundary falls inside the run of  *)
(* stack-continuation lines that follows a record, the record is emitted    *)
(* with the frames of the whole run or is not emitted; it never carries     *)
(* only the frames of the lines before the boundary.                        *)
C23_WholeStackOrNoRecord ==
    (parserCreated = RENDERER /\ StreamEnded /\ maxLines # Infinity)
        => \A i \in 1..Len(file) :
              LET run == StackRun(i + 1)
              IN (IsPrimary(i) /\ i < maxLines /\ maxLines < i + Len(run))
                    => \A j \in RecordsOf(Logs, i) :
                          Logs[j].stack = parseStackTrace(run)

(* C28: at every point of a run successfulLogs is the length of logs and   *)
(* the records handed to onLog are logs, in the same order, also when a    *)
(* line or the callback throws.                                            *)
C28_CountAndCallbacksFollowLogs ==
    /\ result.successfulLogs = Len(Logs)
    /\ onLogCalls = Logs

C28_Witness ==
    /\ pc = "done"
    /\ throwIn = "onLog"
    /\ \E c \in 1..Len(onErrorCalls) : onErrorCalls[c].message = "onLog"
    /\ Len(Logs) >= 2
    /\ result.successfulLogs = Len(Logs)

(* C29: on a Renderer file, a record followed by stack-continuation lines  *)
(* is emitted with the same error.stack when the stream ends right after   *)
(* them (close handler) as when another primary line follows them          *)
(* (parseRendererLine), whether or not its own line carried error fields.  *)
C29_StackSameAtEndOfStream ==
    (/\ parserCreated = RENDERER
     /\ pc = "stream"
     /\ lineNumber = Len(file)
     /\ context.previousLog # 0
     /\ Len(context.stackLines) > 0
     /\ \A k \in 1..Len(context.stackLines) :
            context.stackLines[k] > context.previousLog)
        => LET atEnd == CloseHandler.result.logs
               followed == parseRendererLine(context.previousLog, context,
                                             result, onLogCalls).result.logs
           IN atEnd = followed

(* C25: the reasons of a detection result name each evidence category at *)
(* most once, however many sample lines hit the category.                *)
C25_EachReasonOnce ==
    pc = "detected"
        => \A j, k \in 1..Len(detection.reasons) :
              detection.reasons[j] = detection.reasons[k] => j = k

----------------------------------------------------------------------------
(* The merge of the same per-file results in another order *)

(* the forEach over the files, on a list of per-file results *)
RECURSIVE MergeAllIssues(_, _)
MergeAllIssues(files, all) ==
    IF files = <<>> THEN all
    ELSE MergeAllIssues(Tail(files),
                        MergeIssues(all, Head(files).analysis.detectedIssues,
                                    Head(files).path))

RECURSIVE MergeAllLevelCounts(_, _)
MergeAllLevelCounts(files, combined) ==
    IF files = <<>> THEN combined
    ELSE MergeAllLevelCounts(Tail(files),
                             MergeLevelCounts(combined,
                                              Head(files).analysis.levelCounts))

(* the list with the files at i and i + 1 exchanged; these exchanges *)
(* generate every permutation                                        *)
Exchanged(files, i) ==
    [j \in 1..Len(files) |->
        IF j = i THEN files[i + 1] ELSE IF j = i + 1 THEN files[i] ELSE files[j]]

(* what the claim compares of the merged issues *)
IssueView(all) ==
    {[pattern_id |-> all[j].pattern_id,
      occurrence_count |-> all[j].occurrence_count,
      first_occurrence_line |-> all[j].first_occurrence_line,
      sample_lines |-> all[j].sample_lines,
      files |-> {all[j].files[k] : k \in 1..Len(all[j].files)}] : j \in 1..Len(all)}

(* C21: merging the same per-file results in any other order gives every  *)
(* merged issue the same occurrence_count, first_occurrence_line,         *)
(* sample_lines and set of per-file entries, and the same level counts.   *)
C21_MergeIsOrderIndependent ==
    \A i \in 1..(Len(extractedFiles) - 1) :
        LET permuted == Exchanged(extractedFiles, i)
        IN /\ IssueView(MergeAllIssues(permuted, <<>>)) = IssueView(allDetectedIssues)
           /\ MergeAllLevelCounts(permuted, <<>>) = combinedLevelCounts

(* the part of C21 that does not depend on the order: counts, per-file *)
(* entries and level counts                                            *)
CountView(all) ==
    {[pattern_id |-> v.pattern_id, occurrence_count |-> v.occurrence_count,
      files |-> v.files] : v \in IssueView(all)}

MergedCountsAreOrderIndependent ==
    \A i \in 1..(Len(extractedFiles) - 1) :
        LET permuted == Exchanged(extractedFiles, i)
        IN /\ CountView(MergeAllIssues(permuted, <<>>)) = CountView(allDetectedIssues)
           /\ MergeAllLevelCounts(permuted, <<>>) = combinedLevelCounts
           /\ MergeAllIssues(extractedFiles, <<>>) = allDetectedIssues

----------------------------------------------------------------------------
(* Two parseFile calls running concurrently on one LogParserManager, on the *)
(* same file and without a line budget.  The first call keeps its closure   *)
(* state in the variables of parseFile, the second in the record other; the *)
(* manager itself holds only the table of parser classes.                   *)

(* the locals of parseFile and streamParse before the first await *)
NewCall ==
    [pc |-> "detect", detection |-> NoDetection, parserCreated |-> "none",
     lineNumber |-> 0, result |-> NewResult, context |-> NewContext,
     onLogCalls |-> <<>>, onErrorCalls |-> <<>>, onCompleteCalls |-> 0,
     rejection |-> ""]

OtherState ==
    [context |-> other.context, result |-> other.result,
     calls |-> other.onLogCalls, errors |-> other.onErrorCalls]

(* the second call's line handler on the first call's context object *)
OtherHandleLineOnSharedContext(n) ==
    HandleLineIn(n, other.parserCreated, [OtherState EXCEPT !.context = context])

(* the second call's line handler: its own parser, context and result *)
OtherHandleLine(n) ==
    HandleLineIn(n, other.parserCreated, OtherState)

(* parseFile up to the call of streamParse, second call *)
OtherDetectFormat ==
    /\ other.pc = "detect"
    /\ LET d == detectFormatFromFile
       IN other' =
            IF IsUnknown(d)
            THEN [other EXCEPT
                    !.detection = d,
                    !.onErrorCalls = Append(@, [message |-> "Unable to detect log format",
                                                ln |-> 0, line |-> ""]),
                    !.rejection = "Unable to detect log format",
                    !.pc = "rejected"]
            ELSE [other EXCEPT
                    !.detection = d, !.parserCreated = d.format, !.pc = "stream"]
    /\ UNCHANGED <<pc, ManagerVars, RecordVars, AnalyzerVars, MergeVars>>

(* rl.on('line') of the second call *)
OtherLineEvent ==
    /\ other.pc = "stream"
    /\ other.lineNumber < Len(file)
    /\ LET n == other.lineNumber + 1
       IN IF Exceeds(n, maxLines)
          THEN LET out == CloseHandlerIn(other.parserCreated, OtherState)
               IN other' = [other EXCEPT
                              !.lineNumber = n, !.result = out.result,
                              !.onLogCalls = out.calls,
                              !.pc = IF out.threw THEN "crashed" ELSE "closed"]
          ELSE LET out == OtherHandleLine(n)
               IN other' = [other EXCEPT
                              !.lineNumber = n, !.context = out.context,
                              !.result = out.result, !.onLogCalls = out.calls,
                              !.onErrorCalls = out.errors]
    /\ UNCHANGED <<pc, ManagerVars, RecordVars, AnalyzerVars, MergeVars>>

(* end of input of the second call: rl emits 'close' *)
OtherEndOfInput ==
    /\ other.pc = "stream"
    /\ other.lineNumber = Len(file)
    /\ LET out == CloseHandlerIn(other.parserCreated, OtherState)
       IN other' = [other EXCEPT
                      !.result = out.result, !.onLogCalls = out.calls,
                      !.pc = IF out.threw THEN "crashed" ELSE "closed"]
    /\ UNCHANGED <<pc, ManagerVars, RecordVars, AnalyzerVars, MergeVars>>

(* the second call after streamParse resolved *)
OtherComplete ==
    /\ other.pc = "closed"
    /\ other' = [other EXCEPT !.onCompleteCalls = @ + 1, !.pc = "done"]
    /\ UNCHANGED <<pc, ManagerVars, RecordVars, AnalyzerVars, MergeVars>>

InitPair ==
    /\ file \in SeqsUpTo(LineKinds, MaxLen)
    /\ maxLines = Infinity
    /\ throwLine = 0
    /\ throwIn = "none"
    /\ pc = "detect"
    /\ detection = NoDetection
    /\ parserCreated = "none"
    /\ lineNumber = 0
    /\ result = NewResult
    /\ context = NewContext
    /\ onLogCalls = <<>>
    /\ onErrorCalls = <<>>
    /\ onCompleteCalls = 0
    /\ rejection = ""
    /\ sample = <<>>
    /\ other = NewCall
    /\ RecordIdle
    /\ AnalyzerIdle
    /\ MergeIdle

NextPair ==
    \/ DetectFormat
    \/ LineEvent
    \/ EndOfInput
    \/ Complete
    \/ OtherDetectFormat
    \/ OtherLineEvent
    \/ OtherEndOfInput
    \/ OtherComplete

SpecPair == InitPair /\ [][NextPair]_vars

(* a call run alone: the closure state after its first n line events, and *)
(* what it resolves with                                                  *)
RECURSIVE AloneAfter(_, _)
AloneAfter(format, n) ==
    IF n = 0
    THEN [context |-> NewContext, result |-> NewResult, calls |-> <<>>,
          errors |-> <<>>]
    ELSE HandleLineIn(n, format, AloneAfter(format, n - 1))

AloneResult(format) == CloseHandlerIn(format, AloneAfter(format, Len(file)))

(* the closure state st of a call at position at, n lines read, is the one *)
(* of the call run alone                                                   *)
AsAlone(at, format, n, st) ==
    /\ at = "stream" => st = AloneAfter(format, n)
    /\ at \in {"closed", "done"}
          => /\ st.result = AloneResult(format).result
             /\ st.calls = AloneResult(format).calls
             /\ st.errors = AloneAfter(format, Len(file)).errors

(* C22: with the line events of two concurrent parseFile calls interleaved *)
(* in any way, each call's counts, logs, context and callbacks are at      *)
(* every point those of the same call run alone.                           *)
C22_ConcurrentCallsRunAsAlone ==
    other # <<>>
        => /\ AsAlone(pc, parserCreated, lineNumber, State)
           /\ AsAlone(other.pc, other.parserCreated, other.lineNumber, OtherState)

C22_Witness ==
    /\ other # <<>>
    /\ pc = "stream"
    /\ other.pc = "stream"
    /\ lineNumber = 1
    /\ other.lineNumber = 2
    /\ context.previousLog = 1
    /\ other.context.stackLines = <<2>>
    /\ C22_ConcurrentCallsRunAsAlone

----------------------------------------------------------------------------
(* PerformanceParser.parseLine with its data fragments.  A line is          *)
(*   [<time>] [<level>] Performance Trace | traces=<traces>, system=<system> *)
(* and each fragment is one of                                               *)
(*  "valid"    traces=[{"name":"load","ms":12}]    system={"cpu":0.5}        *)
(*  "invalid"  traces=[{name:load}]                system={cpu:0.5,}         *)
(*             delimited, but JSON.parse throws                              *)
(*  "open"     traces=[{"name":"load"}             system={"cpu":0.5         *)
(*             the closing bracket is missing                                *)
(*  "absent"   the fragment is not in the line                               *)

Fragments == {"valid", "invalid", "open", "absent"}

PerformanceLines ==
    {[shape |-> "text", level |-> l, time |-> t, traces |-> a, system |-> b] :
        l \in LevelWords, t \in {"valid", "invalid"}, a \in Fragments, b \in Fragments}
    \cup {[shape |-> "plain", level |-> "none", time |-> "absent",
           traces |-> "absent", system |-> "absent"]}

(* the parsed value of a fragment, and the defaults [] and {} *)
Parsed(name) == [of |-> name, value |-> "parsed"]
Default(name) == [of |-> name, value |-> "empty"]

(* dataStr.match(/traces=(\[.*?\])\s*(?:,\s*system=|$)/): a closing bracket *)
(* followed by ', system=' or by the end of the line                        *)
MatchesTraces(data) == data.traces \in {"valid", "invalid"}

(* dataStr.match(/system=(\{.*\})\s*$/): a closing brace at the end *)
MatchesSystem(data) == data.system \in {"valid", "invalid"}

(* JSON.parse throws on a fragment that is not JSON *)
JSON_parseThrows(fragment) == fragment # "valid"

(* both fragments parsed inside one try block: the first failure leaves *)
(* the second fragment unparsed                                         *)
extractPerformanceDataInOneTry(data) ==
    LET tracesFailed == MatchesTraces(data) /\ JSON_parseThrows(data.traces)
    IN [traces |-> IF MatchesTraces(data) /\ ~JSON_parseThrows(data.traces)
                   THEN Parsed("traces") ELSE Default("traces"),
        system |-> IF ~tracesFailed /\ MatchesSystem(data)
                      /\ ~JSON_parseThrows(data.system)
                   THEN Parsed("system") ELSE Default("system"),
        warnings |-> IF tracesFailed THEN <<"Failed to parse traces:">>
                     ELSE IF MatchesSystem(data) /\ JSON_parseThrows(data.system)
                     THEN <<"Failed to parse system:">> ELSE <<>>,
        threw |-> FALSE]

(* PerformanceParser.extractPerformanceData: each fragment in a try of its own *)
extractPerformanceData(data) ==
    [traces |-> IF MatchesTraces(data) /\ ~JSON_parseThrows(data.traces)
                THEN Parsed("traces") ELSE Default("traces"),
     system |-> IF MatchesSystem(data) /\ ~JSON_parseThrows(data.system)
                THEN Parsed("system") ELSE Default("system"),
     warnings |-> (IF MatchesTraces(data) /\ JSON_parseThrows(data.traces)
                   THEN <<"Failed to parse traces:">> ELSE <<>>)
                  \o (IF MatchesSystem(data) /\ JSON_parseThrows(data.system)
                      THEN <<"Failed to parse system:">> ELSE <<>>),
     threw |-> FALSE]

(* PerformanceParser.parseLine: the standard record and its metadata *)
PerformanceParser_parseLineWithData(line, now) ==
    IF PerformanceParser_parseLine(line, now) = <<>> THEN <<>>
    ELSE LET perfData == extractPerformanceData(line)
         IN <<[log |-> PerformanceParser_parseLine(line, now)[1],
               metadata |-> [traces |-> perfData.traces, system |-> perfData.system],
               warnings |-> perfData.warnings,
               threw |-> perfData.threw]>>

(* the line is handed to a PerformanceParser *)
ParsePerformanceLine ==
    /\ pc = "performance"
    /\ producer' = PERFORMANCE
    /\ records' = <<[at |-> clock,
                     out |-> PerformanceParser_parseLineWithData(rawLine, clock)]>>
    /\ pc' = "parsed"
    /\ UNCHANGED <<rawLine, clock, ManagerVars, AnalyzerVars, MergeVars, PairVars>>

InitPerformance ==
    /\ pc = "performance"
    /\ rawLine \in PerformanceLines
    /\ clock = 1
    /\ producer = "none"
    /\ records = <<>>
    /\ ManagerIdle
    /\ AnalyzerIdle
    /\ MergeIdle
    /\ PairIdle

NextPerformance == ParsePerformanceLine

SpecPerformance == InitPerformance /\ [][NextPerformance]_vars

IsMalformed(fragment) == fragment \in {"invalid", "open"}

(* what the intact fragment must give: its parsed value, or the default *)
(* when the line does not carry it                                      *)
Retained(name, fragment) ==
    IF fragment = "valid" THEN Parsed(name) ELSE Default(name)

(* C27: when exactly one of traces=[...] and system={...} is malformed    *)
(* JSON, the line still yields a record, the record keeps the parsed      *)
(* value of the other fragment (and the default of the malformed one),    *)
(* and no exception is raised.                                            *)
C27_FragmentsParsedIndependently ==
    (/\ pc = "parsed"
     /\ rawLine.shape = "text"
     /\ IsMalformed(rawLine.traces) # IsMalformed(rawLine.system))
        => /\ records[1].out # <<>>
           /\ LET log == records[1].out[1]
              IN /\ ~log.threw
                 /\ IsMalformed(rawLine.traces)
                       => /\ log.metadata.traces = Default("traces")
                          /\ log.metadata.system = Retained("system", rawLine.system)
                 /\ IsMalformed(rawLine.system)
                       => /\ log.metadata.system = Default("system")
                          /\ log.metadata.traces = Retained("traces", rawLine.traces)

C27_Witness ==
    /\ pc = "parsed"
    /\ rawLine.shape = "text"
    /\ rawLine.traces = "invalid"
    /\ rawLine.system = "valid"
    /\ records[1].out # <<>>
    /\ records[1].out[1].metadata.system = Parsed("system")
    /\ records[1].out[1].metadata.traces = Default("traces")

----------------------------------------------------------------------------
(* The masking chain of clusterSimilarLines on the text of a message.  A    *)
(* message is a list of tokens separated by blanks, a text a list of atoms: *)
(*  token "word"       failed                 atoms  W                      *)
(*  token "int"        42                            D                      *)
(*  token "ip"         192.168.1.10                  D . D . D . D          *)
(*  token "version"    2.7                           D . D                  *)
(*  token "hex"        0x1F                          X                      *)
(*  token "uuid"       123e4567-e89b-12d3-a456-426614174000    U            *)
(*  token "email"      bob@example.com               E                      *)
(*  token "timestamp"  2025-06-26 19:26:27           T                      *)
(* D is a run of one to three digits with a word boundary on both sides; in *)
(* 0x1F no run of digits has one, the x and the F being word characters.    *)

MaxTokens == 3

TokenKinds == {"word", "int", "ip", "version", "hex", "uuid", "email", "timestamp"}

AtomsOf(kind) ==
    CASE kind = "word" -> <<"W">>
      [] kind = "int" -> <<"D">>
      [] kind = "ip" -> <<"D", ".", "D", ".", "D", ".", "D">>
      [] kind = "version" -> <<"D", ".", "D">>
      [] kind = "hex" -> <<"X">>
      [] kind = "uuid" -> <<"U">>
      [] kind = "email" -> <<"E">>
      [] kind = "timestamp" -> <<"T">>

(* line.message: the tokens joined by blanks *)
RECURSIVE TextOf(_)
TextOf(tokens) ==
    IF tokens = <<>> THEN <<>>
    ELSE IF Len(tokens) = 1 THEN AtomsOf(tokens[1])
    ELSE AtomsOf(Head(tokens)) \o <<" ">> \o TextOf(Tail(tokens))

(* text.replace(/.../g, placeholder) for a pattern that matches one atom *)
ReplaceAtom(text, atom, placeholder) ==
    [i \in 1..Len(text) |-> IF text[i] = atom THEN placeholder ELSE text[i]]

(* text.replace(/\b(?:\d{1,3}\.){3}\d{1,3}\b/g, '<IP>'): leftmost matches, *)
(* one after the other                                                     *)
IsDottedQuad(text) ==
    /\ Len(text) >= 7
    /\ SubSeq(text, 1, 7) = <<"D", ".", "D", ".", "D", ".", "D">>

RECURSIVE ReplaceIP(_)
ReplaceIP(text) ==
    IF text = <<>> THEN <<>>
    ELSE IF IsDottedQuad(text)
    THEN <<"<IP>">> \o ReplaceIP(SubSeq(text, 8, Len(text)))
    ELSE <<Head(text)>> \o ReplaceIP(Tail(text))

(* the chain of replace calls, in the order of the code *)
MaskText(text) ==
    LET timestamps == ReplaceAtom(text, "T", "<TIMESTAMP>")
        uuids == ReplaceAtom(timestamps, "U", "<UUID>")
        nums == ReplaceAtom(uuids, "D", "<NUM>")
        hexes == ReplaceAtom(nums, "X", "<HEX>")
        emails == ReplaceAtom(hexes, "E", "<EMAIL>")
    IN ReplaceIP(emails)

(* the message is masked *)
MaskMessage ==
    /\ pc = "mask"
    /\ analysis' = MaskText(TextOf(content))
    /\ pc' = "masked"
    /\ UNCHANGED <<content, patterns, threshold, ManagerVars, RecordVars,
                   MergeVars, PairVars>>

InitMask ==
    /\ pc = "mask"
    /\ content \in SeqsUpTo(TokenKinds, MaxTokens)
    /\ patterns = <<>>
    /\ threshold = 0
    /\ analysis = <<>>
    /\ ManagerIdle
    /\ RecordIdle
    /\ MergeIdle
    /\ PairIdle

NextMask == MaskMessage

SpecMask == InitMask /\ [][NextMask]_vars

(* the masked text cut at the blanks: one piece per token *)
RECURSIVE Pieces(_, _)
Pieces(text, piece) ==
    IF text = <<>> THEN <<piece>>
    ELSE IF Head(text) = " " THEN <<piece>> \o Pieces(Tail(text), <<>>)
    ELSE Pieces(Tail(text), Append(piece, Head(text)))

MaskedPieces == IF content = <<>> THEN <<>> ELSE Pieces(analysis, <<>>)

(* C26: in the masked text every IPv4 address is the single placeholder    *)
(* <IP>, every hex literal <HEX> and every bare integer <NUM>; no octet of *)
(* an IPv4 address has become a <NUM>.                                     *)
C26_AddressesHexAndIntegersMasked ==
    pc = "masked"
        => /\ Len(MaskedPieces) = Len(content)
           /\ \A i \in 1..Len(content) :
                 /\ content[i] = "ip" => MaskedPieces[i] = <<"<IP>">>
                 /\ content[i] = "hex" => MaskedPieces[i] = <<"<HEX>">>
                 /\ content[i] = "int" => MaskedPieces[i] = <<"<NUM>">>

(* what holds of the chain as written: hex literals and bare integers are *)
(* masked, an address becomes four <NUM> joined by dots                   *)
MaskedAsWritten ==
    pc = "masked"
        => /\ Len(MaskedPieces) = Len(content)
           /\ \A i \in 1..Len(content) :
                 /\ content[i] = "ip"
                       => MaskedPieces[i] = <<"<NUM>", ".", "<NUM>", ".", "<NUM>", ".", "<NUM>">>
                 /\ content[i] = "hex" => MaskedPieces[i] = <<"<HEX>">>
                 /\ content[i] = "int" => MaskedPieces[i] = <<"<NUM>">>

----------------------------------------------------------------------------
(* LogNormalizer.extractTimestamp on its argument.  The argument is a text, *)
(* or a value that is not a string: normalizeJsonLog hands it the raw value *)
(* of the Timestamp field of a JSON line.  A text is what it holds of each  *)
(* time format, at the first place the format's pattern matches:            *)
(*  "iso"       2025-06-26T19:26:27.123Z                                    *)
(*  "datetime"  2025-06-26 19:26:27, with .123 behind it when ms is TRUE    *)
(*  "unix"      1750965987                                                  *)
(*  "slash"     2025/6/26 9:26:27                                           *)
(*  "us"        6/26/2025 9:26:27                                           *)
(*  "month"     Jun 26 2025 19:26:27                                        *)
(*  "compact"   20250626 192627                                             *)
(* and the digits found are "date" (a date after 1970), "old" (a date of    *)
(* 1970 or before), "nodate" (2025-13-45 25:61:61) or "none" (no match).    *)

TimeFormats == {"iso", "datetime", "unix", "slash", "us", "month", "compact"}

Digits(format) ==
    IF format = "unix" THEN {"none", "date"}
    ELSE IF format \in {"iso", "datetime"} THEN {"none", "date", "old", "nodate"}
    ELSE {"none", "date", "nodate"}

Texts ==
    {[type |-> "string", found |-> f, ms |-> m] :
        f \in {g \in [TimeFormats -> {"none", "date", "old", "nodate"}] :
                 \A format \in TimeFormats : g[format] \in Digits(format)},
        m \in BOOLEAN}

(* undefined, the empty string, a number, an object *)
NonTexts == {[type |-> t] : t \in {"undefined", "empty", "number", "object"}}

(* this.timestampPatterns, in list order: the format each pattern matches; *)
(* the second takes the milliseconds when they are there, the third never  *)
(* does, the ninth requires them                                           *)
timestampPatterns ==
    <<"iso", "datetime", "datetime", "unix", "slash", "us", "month", "compact",
      "datetime">>

RequiresMilliseconds(i) == i = 9

(* text.match(pattern): what the i-th pattern finds in the text *)
Match(text, i) ==
    IF RequiresMilliseconds(i) /\ ~text.ms THEN "none"
    ELSE text.found[timestampPatterns[i]]

(* new Date(timestamp) on the matched string: the compact form is not a *)
(* date string for new Date, whatever its digits                        *)
NewDate(format, digits) == IF format = "compact" THEN "nodate" ELSE digits

(* LogNormalizer.isValidTimestamp *)
isValidTimestamp(format, digits) ==
    IF format = "unix" THEN TRUE
    ELSE NewDate(format, digits) = "date"

(* the ISO 8601 string of the instant found for a format *)
IsoOf(format) == [src |-> "line", of |-> format]

(* LogNormalizer.normalizeTimestamp: the Unix seconds times 1000, the      *)
(* compact form rebuilt as YYYY-MM-DDTHH:MM:SS, slashes replaced by dashes, *)
(* every other string handed to new Date as it is                           *)
normalizeTimestamp(format, digits) ==
    LET date == IF format \in {"unix", "compact", "slash"} THEN digits
                ELSE NewDate(format, digits)
    IN IF date = "nodate" THEN Unknown ELSE IsoOf(format)

(* the loop of extractTimestamp from the i-th pattern on *)
RECURSIVE TryPatterns(_, _)
TryPatterns(text, i) ==
    IF i > Len(timestampPatterns) THEN Unknown
    ELSE LET format == timestampPatterns[i]
             timestamp == Match(text, i)
         IN IF timestamp # "none" /\ isValidTimestamp(format, timestamp)
            THEN normalizeTimestamp(format, timestamp)
            ELSE TryPatterns(text, i + 1)

(* LogNormalizer.extractTimestamp: !text returns 'unknown'; text.match on a *)
(* value that is not a string is a TypeError                                *)
LogNormalizer_extractTimestamp(text) ==
    IF text.type \in {"undefined", "empty"}
    THEN [value |-> Unknown, raised |-> FALSE]
    ELSE IF text.type # "string"
    THEN [value |-> Unknown, raised |-> TRUE]
    ELSE [value |-> TryPatterns(text, 1), raised |-> FALSE]

ExtractTimestamp ==
    /\ pc = "extract"
    /\ producer' = NORMALIZER
    /\ records' = <<[at |-> clock, out |-> LogNormalizer_extractTimestamp(rawLine)]>>
    /\ pc' = "extracted"
    /\ UNCHANGED <<rawLine, clock, ManagerVars, AnalyzerVars, MergeVars, PairVars>>

InitTimestamp ==
    /\ pc = "extract"
    /\ rawLine \in Texts \cup NonTexts
    /\ clock = 1
    /\ producer = "none"
    /\ records = <<>>
    /\ ManagerIdle
    /\ AnalyzerIdle
    /\ MergeIdle
    /\ PairIdle

NextTimestamp == ExtractTimestamp

SpecTimestamp == InitTimestamp /\ [][NextTimestamp]_vars

(* the patterns whose match in the argument is a valid, convertible date *)
Convertible(text) ==
    IF text.type # "string" THEN {}
    ELSE {i \in 1..Len(timestampPatterns) :
            /\ Match(text, i) # "none"
            /\ isValidTimestamp(timestampPatterns[i], Match(text, i))
            /\ normalizeTimestamp(timestampPatterns[i], Match(text, i)) # Unknown}

FirstOf(S) == CHOOSE i \in S : \A j \in S : i <= j

(* C24: extractTimestamp returns the ISO 8601 conversion of the first      *)
(* pattern, in list order, whose match is valid and convertible, returns   *)
(* 'unknown' exactly when there is no such pattern, and never raises.      *)
C24_FirstValidPatternOrUnknown ==
    pc = "extracted"
        => /\ ~records[1].out.raised
           /\ records[1].out.value =
                 IF Convertible(rawLine) = {} THEN Unknown
                 ELSE IsoOf(timestampPatterns[FirstOf(Convertible(rawLine))])

(* the same on arguments that are strings *)
FirstValidPatternOrUnknownOfText ==
    (pc = "extracted" /\ rawLine.type \in {"string", "undefined", "empty"})
        => /\ ~records[1].out.raised
           /\ records[1].out.value =
                 IF Convertible(rawLine) = {} THEN Unknown
                 ELSE IsoOf(timestampPatterns[FirstOf(Convertible(rawLine))])

----------------------------------------------------------------------------
(* LogNormalizer.normalizeFile and the normalization loop of the upload     *)
(* handler, on the same lines.  A line is                                   *)
(*  "blank"  the empty line, or blanks only                                 *)
(*  "stack"      at refresh (app.js:10:5)   (starts with four blanks, 'at ') *)
(*  "text"   [2025-06-26 19:26:27] [error] Login failed | user=x            *)
(*  "json"   {"Level":"info","Timestamp":"2025-06-26T19:26:27Z",...}        *)
(*  "plain"  random unstructured line                                       *)

FileLineKinds == {"blank", "stack", "text", "json", "plain"}

(* line.startsWith('    at ') *)
StartsWithAt(k) == k = "stack"

(* the line as normalizeLine reads it *)
RawLineOf(k) ==
    CASE k = "text" -> [shape |-> "text", level |-> "error", time |-> "valid"]
      [] k = "json" -> [shape |-> "json", level |-> "info", time |-> "valid"]
      [] OTHER -> [shape |-> "plain", level |-> "none", time |-> "absent"]

(* this.normalizeLine(currentLog) on line i with the stack lines collected, *)
(* error.stack set when there are any: <<>> is null                         *)
NormalizedWithStack(i, stackLines) ==
    IF content[i] = "blank" THEN <<>>
    ELSE <<[ln |-> i, record |-> normalizeLine(RawLineOf(content[i]))[1],
            stack |-> stackLines]>>

(* let count = 0; let currentLog = ''; let stackLines = [] and the output *)
NewRun ==
    [currentLog |-> 0, stackLines |-> <<>>, written |-> <<>>, count |-> 0,
     read |-> 0, closed |-> FALSE]

(* output.write(JSON.stringify(normalized) + '\n') of the record made of *)
(* currentLog; normalizeFile also counts it                             *)
WriteCurrent(run, counts) ==
    LET normalized == NormalizedWithStack(run.currentLog, run.stackLines)
    IN IF normalized # <<>>
       THEN [run EXCEPT !.written = Append(@, normalized[1]),
                        !.count = IF counts THEN @ + 1 ELSE @]
       ELSE run

(* normalizeFile, rl.on('line') on line i *)
normalizeFileLine(run, i) ==
    IF StartsWithAt(content[i])
    THEN [run EXCEPT !.stackLines = Append(@, i), !.read = i]
    ELSE LET flushed == IF run.currentLog # 0
                        THEN [WriteCurrent(run, TRUE) EXCEPT !.stackLines = <<>>]
                        ELSE run
         IN [flushed EXCEPT
                !.currentLog = IF content[i] # "blank" THEN i ELSE @,
                !.read = i]

(* normalizeFile, rl.on('close'): resolve(count) *)
normalizeFileClose(run) ==
    [(IF run.currentLog # 0 THEN WriteCurrent(run, TRUE) ELSE run)
        EXCEPT !.closed = TRUE]

(* the upload handler, lines.forEach body on line i *)
uploadLine(run, i) ==
    IF StartsWithAt(content[i])
    THEN [run EXCEPT !.stackLines = Append(@, i), !.read = i]
    ELSE LET flushed ==
                 IF run.currentLog # 0 /\ content[i] # "blank"
                 THEN IF NormalizedWithStack(run.currentLog, run.stackLines) # <<>>
                      THEN [WriteCurrent(run, FALSE) EXCEPT !.stackLines = <<>>]
                      ELSE run
                 ELSE run
         IN [flushed EXCEPT
                !.currentLog = IF content[i] # "blank" THEN i ELSE @,
                !.read = i]

(* the upload handler, after the loop *)
uploadEnd(run) ==
    [(IF run.currentLog # 0 THEN WriteCurrent(run, FALSE) ELSE run)
        EXCEPT !.closed = TRUE]

NormalizeFileLine ==
    /\ pc = "normalize"
    /\ analysis.file.read < Len(content)
    /\ analysis' = [analysis EXCEPT
                      !.file = normalizeFileLine(@, analysis.file.read + 1)]
    /\ UNCHANGED <<pc, content, patterns, threshold, ManagerVars, RecordVars,
                   MergeVars, PairVars>>

NormalizeFileClose ==
    /\ pc = "normalize"
    /\ analysis.file.read = Len(content)
    /\ ~analysis.file.closed
    /\ analysis' = [analysis EXCEPT !.file = normalizeFileClose(@)]
    /\ UNCHANGED <<pc, content, patterns, threshold, ManagerVars, RecordVars,
                   MergeVars, PairVars>>

UploadLine ==
    /\ pc = "normalize"
    /\ analysis.upload.read < Len(content)
    /\ analysis' = [analysis EXCEPT
                      !.upload = uploadLine(@, analysis.upload.read + 1)]
    /\ UNCHANGED <<pc, content, patterns, threshold, ManagerVars, RecordVars,
                   MergeVars, PairVars>>

UploadEnd ==
    /\ pc = "normalize"
    /\ analysis.upload.read = Len(content)
    /\ ~analysis.upload.closed
    /\ analysis' = [analysis EXCEPT !.upload = uploadEnd(@)]
    /\ UNCHANGED <<pc, content, patterns, threshold, ManagerVars, RecordVars,
                   MergeVars, PairVars>>

InitNormalize ==
    /\ pc = "normalize"
    /\ content \in SeqsUpTo(FileLineKinds, MaxContent)
    /\ patterns = <<>>
    /\ threshold = 0
    /\ analysis = [file |-> NewRun, upload |-> NewRun]
    /\ ManagerIdle
    /\ RecordIdle
    /\ MergeIdle
    /\ PairIdle

NextNormalize ==
    \/ NormalizeFileLine
    \/ NormalizeFileClose
    \/ UploadLine
    \/ UploadEnd

SpecNormalize == InitNormalize /\ [][NextNormalize]_vars

(* the lines that are neither blank nor stack continuations *)
RecordLines == {i \in 1..Len(content) : content[i] \notin {"blank", "stack"}}

(* C30: normalizeFile writes exactly one record per line that is neither   *)
(* blank nor a stack continuation and resolves with the number of such     *)
(* lines, blank lines in the file or not; and it writes the same record    *)
(* sequence as the upload handler's loop on the same lines.                *)
C30_OneRecordPerLineAsUpload ==
    (pc = "normalize" /\ analysis.file.closed)
        => /\ analysis.file.count = Cardinality(RecordLines)
           /\ \A i \in RecordLines :
                 Cardinality(RecordsOf(analysis.file.written, i)) = 1
           /\ analysis.upload.closed
                 => analysis.file.written = analysis.upload.written

(* what holds: on lines without a blank line between them the two agree, *)
(* and the upload loop writes one record per line in every file          *)
AgreeWithoutBlankLines ==
    (pc = "normalize" /\ analysis.file.closed /\ analysis.upload.closed)
        => /\ \A i \in RecordLines :
                 Cardinality(RecordsOf(analysis.upload.written, i)) = 1
           /\ (\A i \in 1..Len(content) : content[i] # "blank")
                 => /\ analysis.file.written = analysis.upload.written
                    /\ analysis.file.count = Cardinality(RecordLines)

====
